---- MODULE Spec2Model ----
(***************************************************************************)
(* The fleet console's client engine (frontend/src/lib.ts): the zustand    *)
(* stores, the useWebSocket hook with its reconnect timer, and the message *)
(* router of ws.onmessage.  Every store is one variable holding the        *)
(* store's state object; a reducer set((state) => ...) is an operator from *)
(* the old state object to the new one.                                    *)
(***************************************************************************)
EXTENDS Integers, Sequences, FiniteSets, TLC

VARIABLES
    connectionStore,  \* useConnectionStore: connected, reconnecting
    robotStore,       \* useRobotStore: robots, trails
    missionStore,     \* useMissionStore: missions, activeMissionId
    commandStore,     \* useCommandStore: commands, robotCommands, sendFn
    autonomyStore,    \* useAutonomyStore: fleetDefaultTier, countdowns, changeLog
    aiStore,          \* useAIStore: suggestions
    uiStore,          \* useUIStore: selectedRobotId, commandMode, the drafts
    tierCalls,        \* setRobotTier calls suspended at their await fetch
    aiCalls,          \* approveSuggestion, rejectSuggestion calls suspended at their await
    readyState,       \* WebSocket.readyState of every socket connect() created
    wsRef,            \* useWebSocket: wsRef.current
    reconnectTimer,   \* useWebSocket: reconnectTimer.current
    timers,           \* window.setTimeout(connect, 3000) timers still pending
    mounted,          \* the useWebSocket effect has run and is not cleaned up
    wire,             \* envelopes WebSocket.send transmitted, with the socket
    threw,            \* an exception escaped a send path
    tick,             \* environment: where each robot is on its patrol loop
    applied,          \* history: the distinct consecutive samples applied, per robot
    received,         \* history: robot.updated payloads since the last other robot write
    base,             \* history: the robot map those payloads were applied to
    issued,           \* history: the sends issued while no socket was open
    nextMsg,          \* environment: the number of the next send
    runs,             \* environment: how many times the useWebSocket effect has run
    spent,            \* environment: events of a scenario's budget that have happened
    owed,             \* environment: autonomy.countdown messages sent and not yet delivered
    overridden,       \* history: the suggestions the operator pressed Override on
    emitted,          \* history: the calls of sendCommand the command builder made
    clicked,          \* history: the points clicked for the draft, undone and cleared
    uncaught,         \* history: the handlers and calls an exception or rejection escaped
    pending,          \* setFleetDefault, generatePlan, approvePlan calls suspended at their await
    event             \* history: the operation that made the last step

storeVars == <<connectionStore, robotStore, missionStore, commandStore, autonomyStore>>
hookVars == <<readyState, wsRef, reconnectTimer, timers, mounted>>
sendVars == <<wire, threw, issued, nextMsg>>
robotHist == <<received, base>>
aiVars == <<aiStore, aiCalls, owed, overridden>>
uiVars == <<uiStore, emitted, clicked>>
deskVars == <<aiVars, uiVars, uncaught, pending>>
vars ==
    <<storeVars, tierCalls, hookVars, sendVars, tick, applied, robotHist, runs, spent,
      deskVars, event>>

(***************************************************************************)
(* Values                                                                  *)
(***************************************************************************)

\* lib.ts:219
MAX_TRAIL_POINTS == 60

\* robot.position?.longitude of a payload that has no position, or no such
\* coordinate, is undefined; coordinates are numbers, so undefined is a value
\* outside the coordinates the environment sends.
Undefined == -1

RobotIds == {"r1", "r2"}

\* AutonomyTier, lib.ts:14
AutonomyTiers == {"manual", "assisted", "supervised", "autonomous"}

Position(lng, lat) == [longitude |-> lng, latitude |-> lat]

NoPosition == Position(Undefined, Undefined)

\* RobotState, lib.ts:28-41: the fields the engine reads, and status as one
\* of the fields it only stores.
Robot(id, position, tier, status) ==
    [id |-> id, position |-> position, autonomyTier |-> tier, status |-> status]

\* robots[id] of an id the map does not hold
NoRobot == Robot("", NoPosition, "", "")

EmptyMap == [x \in {} |-> x]

\* { ...m, [k]: v }
Put(m, k, v) == [x \in (DOMAIN m) \cup {k} |-> IF x = k THEN v ELSE m[x]]

\* m[k] ?? d
Get(m, k, d) == IF k \in DOMAIN m THEN m[k] ELSE d

Last(s) == s[Len(s)]

\* Array.prototype.slice(-n) for n > 0: the last n elements, all when fewer
SliceLast(s, n) == IF Len(s) <= n THEN s ELSE SubSeq(s, Len(s) - n + 1, Len(s))

(***************************************************************************)
(* useRobotStore                                                           *)
(***************************************************************************)

\* A plausible slip: the snapshot is merged into the map, as updateRobot does.
setRobotsMerged(state, robots) ==
    [state EXCEPT !.robots = [id \in (DOMAIN state.robots) \cup (DOMAIN robots) |->
                                 IF id \in DOMAIN robots THEN robots[id] ELSE state.robots[id]]]

\* setRobots: (robots) => set({ robots })
setRobots(state, robots) == [state EXCEPT !.robots = robots]

\* A plausible slip: the window keeps MAX_TRAIL_POINTS old samples, not one fewer.
NextTrailOffByOne(prev, lng, lat) ==
    IF lng # Undefined /\ lat # Undefined
    THEN IF prev = <<>> \/ Last(prev)[1] # lng \/ Last(prev)[2] # lat
         THEN SliceLast(prev, MAX_TRAIL_POINTS) \o <<(<<lng, lat>>)>>
         ELSE prev
    ELSE prev

\* A plausible slip: && for || in the comparison with the last sample.
NextTrailBothDiffer(prev, lng, lat) ==
    IF lng # Undefined /\ lat # Undefined
    THEN IF prev = <<>> \/ (Last(prev)[1] # lng /\ Last(prev)[2] # lat)
         THEN SliceLast(prev, MAX_TRAIL_POINTS - 1) \o <<(<<lng, lat>>)>>
         ELSE prev
    ELSE prev

\* updateRobot, the trail it computes (lib.ts:239-245)
NextTrail(prev, lng, lat) ==
    IF lng # Undefined /\ lat # Undefined
    THEN IF prev = <<>> \/ Last(prev)[1] # lng \/ Last(prev)[2] # lat
         THEN SliceLast(prev, MAX_TRAIL_POINTS - 1) \o <<(<<lng, lat>>)>>
         ELSE prev
    ELSE prev

\* updateRobot: (id, robot) => set((state) => ...)
updateRobot(state, id, robot) ==
    LET prev == Get(state.trails, id, <<>>)
        lng == robot.position.longitude
        lat == robot.position.latitude
    IN  [state EXCEPT !.robots = Put(state.robots, id, robot),
                      !.trails = Put(state.trails, id, NextTrail(prev, lng, lat))]

(***************************************************************************)
(* useMissionStore                                                         *)
(***************************************************************************)

\* Mission, lib.ts:80-88: the fields the engine reads
Mission(id, status) == [id |-> id, status |-> status]

\* setMissions: (missions) => set({ missions })
setMissions(state, missions) == [state EXCEPT !.missions = missions]

\* A plausible slip: the mission is stored and the focus is taken whatever its status.
updateMissionAlwaysFocus(state, mission) ==
    [state EXCEPT !.missions = Put(state.missions, mission.id, mission),
                  !.activeMissionId = mission.id]

\* updateMission: (mission) => set((state) => ...)
updateMission(state, mission) ==
    [state EXCEPT !.missions = Put(state.missions, mission.id, mission),
                  !.activeMissionId =
                      IF mission.status = "active" THEN mission.id ELSE state.activeMissionId]

\* StateSyncPayload, lib.ts:164-167; missions is optional
StateSync(robots, hasMissions, missions) ==
    [robots |-> robots, hasMissions |-> hasMissions, missions |-> missions]

(***************************************************************************)
(* useCommandStore                                                         *)
(***************************************************************************)

\* CommandStatus, lib.ts:49
CommandStatuses == {"pending", "sent", "acknowledged", "completed", "failed"}

\* Command, lib.ts:51-60: the fields the engine reads
Command(id, robotId, status) == [id |-> id, robotId |-> robotId, status |-> status]

\* addCommand: (cmd) => set((state) => ...)
addCommand(state, cmd) ==
    [state EXCEPT !.commands = Put(state.commands, cmd.id, cmd),
                  !.robotCommands =
                      Put(state.robotCommands, cmd.robotId,
                          Append(Get(state.robotCommands, cmd.robotId, <<>>), cmd.id))]

\* { ...existing, ...updates }
Spread(existing, updates) ==
    [f \in (DOMAIN existing) \cup (DOMAIN updates) |->
        IF f \in DOMAIN updates THEN updates[f] ELSE existing[f]]

\* A plausible slip: the record is replaced by the update, not merged with it.
updateCommandReplacing(state, id, updates) ==
    IF id \notin DOMAIN state.commands
    THEN state
    ELSE [state EXCEPT !.commands = Put(state.commands, id, updates)]

\* updateCommand: (id, updates) => set((state) => ...) (lib.ts:323-330)
updateCommand(state, id, updates) ==
    IF id \notin DOMAIN state.commands
    THEN state
    ELSE [state EXCEPT !.commands = Put(state.commands, id,
                                        Spread(state.commands[id], updates))]

\* CommandHistory shows the last five commands of a robot (App.tsx:334)
RECENT_COMMANDS == 5

\* Array.prototype.reverse
Reverse(s) == [i \in 1 .. Len(s) |-> s[Len(s) + 1 - i]]

\* CommandHistory (App.tsx:331-335): the ids listed last under the robot,
\* newest first, without those the map does not hold
recentIds(state, robotId) ==
    LET listed == Reverse(SliceLast(Get(state.robotCommands, robotId, <<>>), RECENT_COMMANDS))
    IN  SelectSeq(listed, LAMBDA id : id \in DOMAIN state.commands)

(***************************************************************************)
(* useAutonomyStore                                                        *)
(***************************************************************************)

\* addChangeLogEntry keeps the last 99 entries and appends (lib.ts:669)
CHANGE_LOG_KEPT == 99

\* the robotId of an autonomy.changed entry about the fleet default (lib.ts:788)
FleetSentinel == "__fleet__"

\* AutonomyChangeEntry, lib.ts:175-182
ChangeEntry(robotId, newTier) == [robotId |-> robotId, newTier |-> newTier]

\* setFleetDefaultTier: (tier) => set({ fleetDefaultTier: tier })
setFleetDefaultTier(state, tier) == [state EXCEPT !.fleetDefaultTier = tier]

\* A plausible slip: slice(-100) for slice(-99).
addChangeLogEntryKeepingCap(state, entry) ==
    [state EXCEPT !.changeLog = SliceLast(state.changeLog, CHANGE_LOG_KEPT + 1) \o <<entry>>]

\* addChangeLogEntry
addChangeLogEntry(state, entry) ==
    [state EXCEPT !.changeLog = SliceLast(state.changeLog, CHANGE_LOG_KEPT) \o <<entry>>]

(***************************************************************************)
(* History of the samples applied                                          *)
(***************************************************************************)

\* The positions given to updateRobot for one robot, without the calls that
\* carry no position and without immediate repeats, newest last.
Noted(hist, position) ==
    IF position.longitude = Undefined \/ position.latitude = Undefined
    THEN hist
    ELSE IF hist # <<>> /\ Last(hist) = <<position.longitude, position.latitude>>
         THEN hist
         ELSE hist \o <<(<<position.longitude, position.latitude>>)>>

\* The operation of the last step: its name, the robot id and the robot it is
\* about, a number (for a robot write, the length of that robot's trail before
\* it; for a snapshot, the number of robots held before it) and the payload of
\* a message that is not a robot.
Event(op, id, robot, n, arg) == [op |-> op, id |-> id, robot |-> robot, n |-> n, arg |-> arg]

NoArg == [none |-> TRUE]

TrailOf(id) == Get(robotStore.trails, id, <<>>)

(***************************************************************************)
(* Initial state: the stores and the hook as constructed                   *)
(***************************************************************************)

MaxSockets == 3

SocketIds == 1 .. MaxSockets

\* wsRef.current = null, reconnectTimer.current = undefined, sendFn = null
None == 0

\* a clicked point: { lat, lng }; circleCenter: null (lib.ts:421-430)
Point(lat, lng) == [lat |-> lat, lng |-> lng]

NoPoint == Point(Undefined, Undefined)

\* circleRadius: 150 (lib.ts:429)
CIRCLE_RADIUS == 150

\* pendingPlan: null, planError: null (lib.ts:530-532)
NoPlan == ""

NoError == ""

\* where each robot starts on the patrol loop
StartTick == [id \in RobotIds |-> IF id = "r1" THEN 0 ELSE 2]

Init ==
    /\ connectionStore = [connected |-> FALSE, reconnecting |-> FALSE]
    /\ robotStore = [robots |-> EmptyMap, trails |-> EmptyMap]
    /\ missionStore = [missions |-> EmptyMap, activeMissionId |-> ""]
    /\ commandStore = [commands |-> EmptyMap, robotCommands |-> EmptyMap, sendFn |-> None]
    /\ autonomyStore =
           [fleetDefaultTier |-> "assisted", countdowns |-> EmptyMap, changeLog |-> <<>>]
    /\ aiStore = [suggestions |-> EmptyMap, pendingPlan |-> NoPlan, planLoading |-> FALSE,
                  planError |-> NoError]
    /\ uiStore = [selectedRobotId |-> "", commandMode |-> "none", pendingWaypoints |-> <<>>,
                  circleCenter |-> NoPoint, circleRadius |-> CIRCLE_RADIUS,
                  selectedRobotIds |-> <<>>, alertsPanelOpen |-> FALSE,
                  settingsPanelOpen |-> FALSE]
    /\ tierCalls = {}
    /\ aiCalls = {}
    /\ owed = {}
    /\ overridden = {}
    /\ emitted = <<>>
    /\ clicked = <<>>
    /\ uncaught = {}
    /\ pending = {}
    /\ readyState = [s \in SocketIds |-> "NONE"]
    /\ wsRef = None
    /\ reconnectTimer = None
    /\ timers = {}
    /\ mounted = FALSE
    /\ wire = {}
    /\ threw = FALSE
    /\ issued = {}
    /\ nextMsg = 1
    /\ tick = StartTick
    /\ applied = [id \in RobotIds |-> <<>>]
    /\ received = <<>>
    /\ base = EmptyMap
    /\ runs = 0
    /\ spent = 0
    /\ event = Event("init", "", NoRobot, 0, NoArg)

(***************************************************************************)
(* Handlers that write the robot store                                     *)
(***************************************************************************)

\* A call of updateRobot(id, robot), with the history of what was applied.
CallUpdateRobot(id, robot) ==
    /\ robotStore' = updateRobot(robotStore, id, robot)
    /\ applied' = [applied EXCEPT ![id] = Noted(applied[id], robot.position)]

\* A plausible slip: an update for the robot the previous message was about
\* is coalesced with it, and only the first of the burst is applied.
OnRobotUpdatedCoalesced(robot) ==
    /\ IF event.op = "robot.updated" /\ event.id = robot.id
       THEN UNCHANGED <<robotStore, applied>>
       ELSE CallUpdateRobot(robot.id, robot)
    /\ event' = Event("robot.updated", robot.id, robot, Len(TrailOf(robot.id)), NoArg)
    /\ UNCHANGED <<connectionStore, missionStore, commandStore, autonomyStore>>
    /\ UNCHANGED tierCalls

\* ws.onmessage, case "robot.updated" (lib.ts:754-758)
OnRobotUpdated(robot) ==
    /\ CallUpdateRobot(robot.id, robot)
    /\ event' = Event("robot.updated", robot.id, robot, Len(TrailOf(robot.id)), NoArg)
    /\ UNCHANGED <<connectionStore, missionStore, commandStore, autonomyStore>>
    /\ UNCHANGED tierCalls

\* ws.onmessage, case "state.sync" (lib.ts:746-753)
OnStateSync(payload) ==
    /\ robotStore' = setRobots(robotStore, payload.robots)
    /\ missionStore' = IF payload.hasMissions
                       THEN setMissions(missionStore, payload.missions)
                       ELSE missionStore
    /\ event' = Event("state.sync", "", NoRobot, Cardinality(DOMAIN robotStore.robots), payload)
    /\ UNCHANGED <<connectionStore, commandStore, autonomyStore, applied, tierCalls>>

\* ws.onmessage, case "command.status" (lib.ts:759-768)
OnCommandStatus(cmd) ==
    /\ commandStore' = IF cmd.id \in DOMAIN commandStore.commands
                       THEN updateCommand(commandStore, cmd.id, cmd)
                       ELSE addCommand(commandStore, cmd)
    /\ event' = Event("command.status", cmd.robotId, NoRobot, 0, cmd)
    /\ UNCHANGED <<connectionStore, robotStore, missionStore, autonomyStore, applied, tierCalls>>

\* ws.onmessage, case "mission.updated" (lib.ts:769-773)
OnMissionUpdated(mission) ==
    /\ missionStore' = updateMission(missionStore, mission)
    /\ event' = Event("mission.updated", "", NoRobot, 0, mission)
    /\ UNCHANGED <<connectionStore, robotStore, commandStore, autonomyStore, applied, tierCalls>>

\* ws.onmessage, case "autonomy.changed" (lib.ts:784-797)
OnAutonomyChanged(entry) ==
    LET logged == addChangeLogEntry(autonomyStore, entry)
        existing == Get(robotStore.robots, entry.robotId, NoRobot)
    IN  /\ IF entry.robotId = FleetSentinel
           THEN /\ autonomyStore' = setFleetDefaultTier(logged, entry.newTier)
                /\ UNCHANGED <<robotStore, applied>>
           ELSE /\ autonomyStore' = logged
                /\ IF entry.robotId \in DOMAIN robotStore.robots
                   THEN CallUpdateRobot(entry.robotId,
                                        [existing EXCEPT !.autonomyTier = entry.newTier])
                   ELSE UNCHANGED <<robotStore, applied>>
        /\ event' = Event("autonomy.changed", entry.robotId, existing, Len(TrailOf(entry.robotId)), entry)
        /\ UNCHANGED <<connectionStore, missionStore, commandStore, tierCalls>>

\* setRobotTier up to its await (lib.ts:672-682): the optimistic write, then
\* the call is suspended holding the robot it read.
SetRobotTier(robotId, tier) ==
    LET known == robotId \in DOMAIN robotStore.robots
        robot == Get(robotStore.robots, robotId, NoRobot)
    IN  /\ IF known
           THEN CallUpdateRobot(robotId, [robot EXCEPT !.autonomyTier = tier])
           ELSE UNCHANGED <<robotStore, applied>>
        /\ tierCalls' = tierCalls \cup {[robotId |-> robotId, known |-> known, robot |-> robot]}
        /\ event' = Event("setRobotTier", robotId, robot, Len(TrailOf(robotId)), [tier |-> tier])
        /\ UNCHANGED <<connectionStore, missionStore, commandStore, autonomyStore>>

\* setRobotTier, the fetch resolved, with a success response (ok) or with any
\* other: the response is not read and nothing more is done
SetRobotTierResolved(call, ok) ==
    /\ call \in tierCalls
    /\ tierCalls' = tierCalls \ {call}
    /\ event' = Event(IF ok THEN "setRobotTier.resolved" ELSE "setRobotTier.refused",
                      call.robotId, call.robot, 0, NoArg)
    /\ UNCHANGED <<storeVars, applied>>

\* setRobotTier, the fetch rejected: the catch block (lib.ts:683-687)
SetRobotTierRejected(call) ==
    /\ call \in tierCalls
    /\ tierCalls' = tierCalls \ {call}
    /\ IF call.known
       THEN CallUpdateRobot(call.robotId, call.robot)
       ELSE UNCHANGED <<robotStore, applied>>
    /\ event' = Event("setRobotTier.rejected", call.robotId, call.robot, Len(TrailOf(call.robotId)), NoArg)
    /\ UNCHANGED <<connectionStore, missionStore, commandStore, autonomyStore>>

(***************************************************************************)
(* useAIStore and the countdowns of useAutonomyStore                       *)
(***************************************************************************)

SuggestionStatuses == {"pending", "approved", "rejected", "expired"}

\* Suggestion, lib.ts:104-117; proposedAction is whether it is not null
Suggestion(id, robotId, status, proposedAction) ==
    [id |-> id, robotId |-> robotId, status |-> status, proposedAction |-> proposedAction]

\* CountdownSuggestion, lib.ts:184-189
Countdown(suggestionId, robotId) == [suggestionId |-> suggestionId, robotId |-> robotId]

\* const { [k]: _, ...rest } = m
Without(m, k) == [x \in (DOMAIN m) \ {k} |-> m[x]]

\* addSuggestion (lib.ts:536-537)
addSuggestion(state, suggestion) ==
    [state EXCEPT !.suggestions = Put(@, suggestion.id, suggestion)]

\* updateSuggestion (lib.ts:539-540)
updateSuggestion(state, id, suggestion) ==
    [state EXCEPT !.suggestions = Put(@, id, suggestion)]

\* removeSuggestion (lib.ts:542-546)
removeSuggestion(state, id) == [state EXCEPT !.suggestions = Without(@, id)]

\* addCountdown (lib.ts:656-659)
addCountdown(state, countdown) ==
    [state EXCEPT !.countdowns = Put(@, countdown.suggestionId, countdown)]

\* removeCountdown (lib.ts:661-665)
removeCountdown(state, suggestionId) ==
    [state EXCEPT !.countdowns = Without(@, suggestionId)]

\* robot?.autonomyTier ?? "assisted" (App.tsx:749-752)
TierOf(robotId) ==
    IF robotId \in DOMAIN robotStore.robots
    THEN robotStore.robots[robotId].autonomyTier
    ELSE "assisted"

\* SuggestionCard.renderActions (App.tsx:756-782): what the card shows for the
\* suggestion, and the controls it offers
renderActions(suggestion) ==
    LET tier == TierOf(suggestion.robotId)
    IN  IF suggestion.status # "pending"
        THEN [shown |-> suggestion.status, offered |-> {}]
        ELSE IF tier = "autonomous"
        THEN [shown |-> "Auto-executed", offered |-> {}]
        ELSE IF tier = "supervised" /\ suggestion.id \in DOMAIN autonomyStore.countdowns
        THEN [shown |-> "CountdownTimer", offered |-> {"Override"}]
        ELSE [shown |-> "buttons",
              offered |-> {"Dismiss"} \cup
                          (IF tier # "manual" /\ suggestion.proposedAction
                           THEN {"Approve"} ELSE {})]

\* AlertCard (part_000:621-663): the controls the alert card offers
AlertCard(suggestion) ==
    IF suggestion.status # "pending"
    THEN {}
    ELSE {"Dismiss"} \cup (IF suggestion.proposedAction THEN {"Approve"} ELSE {})

Cards == {"SuggestionCard", "AlertCard"}

Offered(card, suggestion) ==
    IF card = "SuggestionCard" THEN renderActions(suggestion).offered ELSE AlertCard(suggestion)

aiFrame ==
    UNCHANGED <<connectionStore, missionStore, commandStore, tierCalls, applied, uiVars, pending>>

\* ws.onmessage, case "ai.suggestion" (lib.ts:774-783)
OnAiSuggestion(suggestion) ==
    /\ aiStore' = IF suggestion.id \in DOMAIN aiStore.suggestions
                  THEN updateSuggestion(aiStore, suggestion.id, suggestion)
                  ELSE addSuggestion(aiStore, suggestion)
    /\ event' = Event("ai.suggestion", suggestion.id, NoRobot, 0, suggestion)
    /\ UNCHANGED <<robotStore, autonomyStore, aiCalls, overridden, uncaught>>
    /\ aiFrame

\* ws.onmessage, case "autonomy.countdown" (lib.ts:798-802)
OnAutonomyCountdown(countdown) ==
    /\ autonomyStore' = addCountdown(autonomyStore, countdown)
    /\ event' = Event("autonomy.countdown", countdown.suggestionId, NoRobot, 0, countdown)
    /\ UNCHANGED <<robotStore, aiStore, aiCalls, overridden, uncaught>>
    /\ aiFrame

\* approveSuggestion, rejectSuggestion up to their await fetch (lib.ts:548-549,
\* 556-557): nothing is written before the response
AiCall(kind, id) == [kind |-> kind, id |-> id, suggestion |-> aiStore.suggestions[id]]

\* the operator pressed Approve on a card
Approve(card, id) ==
    /\ id \in DOMAIN aiStore.suggestions
    /\ "Approve" \in Offered(card, aiStore.suggestions[id])
    /\ aiCalls' = aiCalls \cup {AiCall("approve", id)}
    /\ event' = Event("approveSuggestion", id, NoRobot, 0,
                      [card |-> card, tier |-> TierOf(aiStore.suggestions[id].robotId)])
    /\ UNCHANGED <<robotStore, autonomyStore, aiStore, overridden, uncaught>>
    /\ aiFrame

\* the operator pressed Dismiss on a card
Dismiss(card, id) ==
    /\ id \in DOMAIN aiStore.suggestions
    /\ "Dismiss" \in Offered(card, aiStore.suggestions[id])
    /\ aiCalls' = aiCalls \cup {AiCall("reject", id)}
    /\ event' = Event("rejectSuggestion", id, NoRobot, 0,
                      [card |-> card, tier |-> TierOf(aiStore.suggestions[id].robotId)])
    /\ UNCHANGED <<robotStore, autonomyStore, aiStore, overridden, uncaught>>
    /\ aiFrame

\* CountdownTimer.handleOverride (App.tsx:171-174): reject(suggestionId) runs to
\* its await, then removeCountdown(suggestionId)
Override(id) ==
    /\ id \in DOMAIN aiStore.suggestions
    /\ "Override" \in renderActions(aiStore.suggestions[id]).offered
    /\ aiCalls' = aiCalls \cup {AiCall("reject", id)}
    /\ autonomyStore' = removeCountdown(autonomyStore, id)
    /\ overridden' = overridden \cup {id}
    /\ event' = Event("override", id, NoRobot, 0, NoArg)
    /\ UNCHANGED <<robotStore, aiStore, uncaught>>
    /\ aiFrame

\* how a fetch ends: a success response, another response, or a rejection
Outcomes == {"ok", "refused", "failed"}

\* the record the server answers an approve or a reject with
Answer(call) ==
    [call.suggestion EXCEPT !.status = IF call.kind = "approve" THEN "approved" ELSE "rejected"]

\* approveSuggestion, rejectSuggestion after the await (lib.ts:550-553, 558-561):
\* the answer is stored if resp.ok; a rejected fetch ends the call there, and
\* the promise the call returned is rejected, as nothing catches
AiCallEnded(call, outcome) ==
    /\ call \in aiCalls
    /\ aiCalls' = aiCalls \ {call}
    /\ aiStore' = IF outcome = "ok"
                  THEN [aiStore EXCEPT !.suggestions = Put(@, call.id, Answer(call))]
                  ELSE aiStore
    /\ uncaught' = IF outcome = "failed"
                   THEN uncaught \cup {call.kind \o "Suggestion"}
                   ELSE uncaught
    /\ event' = Event(call.kind \o "." \o outcome, call.id, NoRobot, 0, NoArg)
    /\ UNCHANGED <<robotStore, autonomyStore, overridden>>
    /\ aiFrame

(***************************************************************************)
(* setFleetDefault and the plan review                                     *)
(***************************************************************************)

\* what the plan and fleet-default calls leave alone
planFrame ==
    UNCHANGED <<connectionStore, robotStore, missionStore, commandStore, tierCalls, applied,
                aiCalls, owed, overridden, uiVars>>

\* setFleetDefault up to its await fetch (lib.ts:689-694): nothing is written
SetFleetDefault(tier) ==
    /\ pending' = pending \cup {[kind |-> "setFleetDefault", tier |-> tier, view |-> ""]}
    /\ event' = Event("setFleetDefault", "", NoRobot, 0,
                      [tier |-> tier, was |-> autonomyStore.fleetDefaultTier])
    /\ UNCHANGED <<autonomyStore, aiStore, uncaught>>
    /\ planFrame

\* setFleetDefault after the await (lib.ts:695-698): the tier is stored if
\* resp.ok; a rejected fetch rejects the promise the call returned
SetFleetDefaultEnded(call, outcome) ==
    /\ call \in pending
    /\ call.kind = "setFleetDefault"
    /\ pending' = pending \ {call}
    /\ autonomyStore' = IF outcome = "ok"
                        THEN [autonomyStore EXCEPT !.fleetDefaultTier = call.tier]
                        ELSE autonomyStore
    /\ uncaught' = IF outcome = "failed" THEN uncaught \cup {"setFleetDefault"} ELSE uncaught
    /\ event' = Event("setFleetDefault." \o outcome, "", NoRobot, 0,
                      [tier |-> call.tier, was |-> autonomyStore.fleetDefaultTier])
    /\ UNCHANGED aiStore
    /\ planFrame

\* the error of the catch blocks (lib.ts:580, 599)
Unreachable == "Could not reach the backend. Ensure the server is running."

\* generatePlan up to its await fetch (lib.ts:564-571)
GeneratePlan ==
    /\ aiStore' = [aiStore EXCEPT !.planLoading = TRUE, !.planError = NoError,
                                  !.pendingPlan = NoPlan]
    /\ pending' = pending \cup {[kind |-> "generatePlan", tier |-> "", view |-> ""]}
    /\ event' = Event("generatePlan", "", NoRobot, 0, NoArg)
    /\ UNCHANGED <<autonomyStore, uncaught>>
    /\ planFrame

\* generatePlan after the await (lib.ts:572-583): the error of the body, or
\* its plan, or the error of the catch block
GeneratePlanEnded(call, outcome, plan) ==
    /\ call \in pending
    /\ call.kind = "generatePlan"
    /\ pending' = pending \ {call}
    /\ aiStore' = CASE outcome = "ok" ->
                         [aiStore EXCEPT !.pendingPlan = plan, !.planLoading = FALSE]
                    [] outcome = "refused" ->
                         [aiStore EXCEPT !.planError = "refused", !.planLoading = FALSE]
                    [] OTHER ->
                         [aiStore EXCEPT !.planError = Unreachable, !.planLoading = FALSE]
    /\ event' = Event("generatePlan." \o outcome, "", NoRobot, 0, NoArg)
    /\ UNCHANGED <<autonomyStore, uncaught>>
    /\ planFrame

\* clearPlan (lib.ts:603)
clearPlan(state) == [state EXCEPT !.pendingPlan = NoPlan, !.planError = NoError]

\* MissionPlanReview is there when a plan is pending or a plan error is set
\* (App.tsx:2031, 2150)
ReviewShown == aiStore.pendingPlan # NoPlan \/ aiStore.planError # NoError

\* the views that review a plan: MissionPlanReview of App.tsx, whose onClose
\* is clearPlan (App.tsx:2151), and the dialog of part_000
Views == {"App", "part_000"}

\* what handleApprove does after await approvePlan(): onClose() in App.tsx
\* (2033), setApproved(true) in part_000 (758-761)
AfterApprove(view, state) == IF view = "App" THEN clearPlan(state) ELSE state

\* handleApprove up to the await fetch of approvePlan (lib.ts:586-593); the
\* button is there while a plan is pending (App.tsx:2112, part_000:895)
HandleApprove(view) ==
    /\ aiStore.pendingPlan # NoPlan
    /\ pending' = pending \cup {[kind |-> "approvePlan", tier |-> "", view |-> view]}
    /\ event' = Event("handleApprove", view, NoRobot, 0,
                      [plan |-> aiStore.pendingPlan, error |-> aiStore.planError])
    /\ UNCHANGED <<autonomyStore, aiStore, uncaught>>
    /\ planFrame

\* approvePlan after the await (lib.ts:594-600), and then the rest of
\* handleApprove
HandleApproveEnded(call, outcome) ==
    /\ call \in pending
    /\ call.kind = "approvePlan"
    /\ pending' = pending \ {call}
    /\ aiStore' =
           AfterApprove(call.view,
               CASE outcome = "ok" -> [aiStore EXCEPT !.pendingPlan = NoPlan]
                 [] outcome = "refused" -> aiStore
                 [] OTHER -> [aiStore EXCEPT !.planError = Unreachable])
    /\ event' = Event("handleApprove." \o outcome, call.view, NoRobot, 0,
                      [plan |-> aiStore.pendingPlan, error |-> aiStore.planError])
    /\ UNCHANGED <<autonomyStore, uncaught>>
    /\ planFrame

\* handleReject (App.tsx:2034), handleClose (part_000:763-766)
HandleReject ==
    /\ ReviewShown
    /\ aiStore' = clearPlan(aiStore)
    /\ event' = Event("handleReject", "", NoRobot, 0, NoArg)
    /\ UNCHANGED <<autonomyStore, uncaught, pending>>
    /\ planFrame

(***************************************************************************)
(* ws.onmessage as a whole: parse, then dispatch on the type               *)
(***************************************************************************)

\* JSON null
Null == [null |-> TRUE]

\* WSMessage, lib.ts:158-162
WSMessage(type, payload) == [type |-> type, payload |-> payload]

\* event.data: text that JSON.parse turns into msg, or text it throws on
Data(parses, msg) == [parses |-> parses, msg |-> msg]

\* the cases of the switch (lib.ts:745-803)
HandledTypes ==
    {"state.sync", "robot.updated", "command.status", "mission.updated", "ai.suggestion",
     "autonomy.changed", "autonomy.countdown"}

\* no store is written
Untouched == UNCHANGED <<storeVars, applied, tierCalls, aiVars, uiVars, pending>>

\* a TypeError or SyntaxError leaves the handler; nothing catches it
Thrown(data) ==
    /\ uncaught' = uncaught \cup {"onmessage"}
    /\ event' = Event("onmessage.threw", "", NoRobot, 0, data)

\* A plausible slip: a default case that rejects the types it does not know.
UnhandledThrows(data) ==
    /\ Thrown(data)
    /\ Untouched

\* the switch has no default case: a type it does not name runs no code
Unhandled(data) ==
    /\ event' = Event("onmessage.ignored", data.msg.type, NoRobot, 0, data)
    /\ Untouched
    /\ UNCHANGED uncaught

\* ws.onmessage (lib.ts:743-804). A payload of null makes the first read of a
\* field of it throw; for autonomy.changed that is after addChangeLogEntry.
onmessage(data) ==
    IF ~data.parses \/ data.msg = Null
    THEN Thrown(data) /\ Untouched
    ELSE LET msg == data.msg
             payload == msg.payload
         IN  IF msg.type \notin HandledTypes
             THEN Unhandled(data)
             ELSE IF payload = Null
             THEN /\ Thrown(data)
                  /\ autonomyStore' = IF msg.type = "autonomy.changed"
                                      THEN addChangeLogEntry(autonomyStore, payload)
                                      ELSE autonomyStore
                  /\ UNCHANGED <<connectionStore, robotStore, missionStore, commandStore,
                                 applied, tierCalls, aiVars, uiVars, pending>>
             ELSE CASE msg.type = "state.sync" -> OnStateSync(payload) /\ UNCHANGED deskVars
                    [] msg.type = "robot.updated" -> OnRobotUpdated(payload) /\ UNCHANGED deskVars
                    [] msg.type = "command.status" ->
                           OnCommandStatus(payload) /\ UNCHANGED deskVars
                    [] msg.type = "mission.updated" ->
                           OnMissionUpdated(payload) /\ UNCHANGED deskVars
                    [] msg.type = "ai.suggestion" -> OnAiSuggestion(payload) /\ UNCHANGED owed
                    [] msg.type = "autonomy.changed" ->
                           OnAutonomyChanged(payload) /\ UNCHANGED deskVars
                    [] msg.type = "autonomy.countdown" ->
                           OnAutonomyCountdown(payload) /\ UNCHANGED owed

\* the socket's message event
MessageReceived(data) ==
    /\ onmessage(data)
    /\ UNCHANGED <<hookVars, sendVars, runs, tick, robotHist>>

(***************************************************************************)
(* The trail under a patrolling fleet: every robot moves round a closed    *)
(* loop of positions and reports where it is.  Successive positions of the *)
(* loop differ in one coordinate or in both, and positions recur.          *)
(***************************************************************************)

PatrolLoop ==
    << Position(0, 0), Position(1, 0), Position(1, 1), Position(0, 1), Position(1, 0) >>

Period == Len(PatrolLoop)

Where(id) == PatrolLoop[(tick[id] % Period) + 1]

\* moves one robot makes in one session of this scenario
MaxTicks == 62

\* the moves a robot has made
Moves(id) == tick[id] - StartTick[id]

\* The fleet moves in turn: r1 moves when level with r2, r2 when r1 is ahead.
MayMove(id) == IF id = "r1" THEN Moves("r1") = Moves("r2") ELSE Moves("r2") < Moves("r1")

\* the robots whose tier the operator changes in this scenario
OperatorRobots == {"r1"}

\* the parts of the fleet a snapshot covers in this scenario
SnapshotFleets == {RobotIds, {"r1"}}

\* events other than moves in one session of this scenario
MaxExtras == 1

Extra ==
    /\ spent < MaxExtras
    /\ spent' = spent + 1
    /\ UNCHANGED <<hookVars, sendVars, runs, robotHist, tick, deskVars>>

\* the robot moved on and reported the new position
TrailMoved(id) ==
    /\ Moves(id) < MaxTicks
    /\ MayMove(id)
    /\ tick' = [tick EXCEPT ![id] = tick[id] + 1]
    /\ OnRobotUpdated(Robot(id, PatrolLoop[(tick'[id] % Period) + 1], "assisted", "active"))
    /\ UNCHANGED <<hookVars, sendVars, runs, robotHist, spent, deskVars>>

\* the robot reported again from where it is
TrailHeartbeat(id) == Extra /\ OnRobotUpdated(Robot(id, Where(id), "assisted", "active"))

\* the robot reported without a position
TrailNoFix(id) == Extra /\ OnRobotUpdated(Robot(id, NoPosition, "assisted", "active"))

\* a snapshot of where the robots of some part of the fleet are
TrailStateSync(ids) ==
    /\ Extra
    /\ OnStateSync(StateSync([id \in ids |-> Robot(id, Where(id), "assisted", "active")],
                             FALSE, EmptyMap))

TrailAutonomyChanged(robotId, tier) == Extra /\ OnAutonomyChanged(ChangeEntry(robotId, tier))

TrailSetRobotTier(robotId, tier) == Extra /\ SetRobotTier(robotId, tier)

TrailTierResolved(call) ==
    /\ \E ok \in BOOLEAN : SetRobotTierResolved(call, ok)
    /\ UNCHANGED <<hookVars, sendVars, runs, robotHist, tick, spent, deskVars>>

TrailTierRejected(call) ==
    /\ SetRobotTierRejected(call)
    /\ UNCHANGED <<hookVars, sendVars, runs, robotHist, tick, spent, deskVars>>

NextTrailSpec ==
    \/ \E id \in RobotIds : TrailMoved(id)
    \/ \E id \in RobotIds : TrailHeartbeat(id)
    \/ \E id \in RobotIds : TrailNoFix(id)
    \/ \E ids \in SnapshotFleets : TrailStateSync(ids)
    \/ \E id \in RobotIds : TrailAutonomyChanged(id, "supervised")
    \/ \E id \in OperatorRobots : TrailSetRobotTier(id, "manual")
    \/ \E call \in tierCalls : TrailTierResolved(call)
    \/ \E call \in tierCalls : TrailTierRejected(call)

SpecTrail == Init /\ [][NextTrailSpec]_vars

(***************************************************************************)
(* Claims about the trail                                                  *)
(***************************************************************************)

\* C1: whatever calls of updateRobot were made, a robot's trail holds at most
\* MAX_TRAIL_POINTS samples, and once more than MAX_TRAIL_POINTS distinct
\* consecutive positions were applied it is exactly the last MAX_TRAIL_POINTS
\* of them, oldest first.
C1_TrailHoldsMostRecent ==
    \A id \in RobotIds :
        LET trail == TrailOf(id)
            hist == applied[id]
        IN  /\ Len(trail) <= MAX_TRAIL_POINTS
            /\ Len(hist) > MAX_TRAIL_POINTS =>
                   /\ Len(trail) = MAX_TRAIL_POINTS
                   /\ \A i \in 1 .. MAX_TRAIL_POINTS :
                          trail[i] = hist[Len(hist) - MAX_TRAIL_POINTS + i]

\* C1, its case: a robot has had more positions applied than the cap, the
\* oldest has been evicted, and the other robot has a trail of its own.
C1_Witness ==
    /\ Len(applied["r1"]) > MAX_TRAIL_POINTS + 1
    /\ Len(TrailOf("r1")) = MAX_TRAIL_POINTS
    /\ TrailOf("r1")[1] # applied["r1"][1]
    /\ TrailOf("r2") # <<>>
    /\ TrailOf("r2") # TrailOf("r1")

\* the operations that call updateRobot with the robot the event names
RobotWrites == {"robot.updated", "autonomy.changed", "setRobotTier", "setRobotTier.rejected"}

HasPosition(robot) ==
    robot.position.longitude # Undefined /\ robot.position.latitude # Undefined

Sample(robot) == <<robot.position.longitude, robot.position.latitude>>

NoEqualNeighbours(trail) == \A i \in 1 .. Len(trail) - 1 : trail[i] # trail[i + 1]

\* after is before with one sample appended, the oldest dropped at the cap
AppendedOne(before, after, sample) ==
    /\ Len(after) = IF Len(before) < MAX_TRAIL_POINTS THEN Len(before) + 1 ELSE MAX_TRAIL_POINTS
    /\ after[Len(after)] = sample
    /\ \A i \in 1 .. Len(after) - 1 : after[i] = before[Len(before) - (Len(after) - 1) + i]

\* C2: a call of updateRobot whose position equals the robot's last sample
\* leaves the trail as it was, one whose position differs in either coordinate
\* appends exactly one sample, and no trail holds two equal adjacent samples.
C2_TrailSkipsRepeats ==
    [][\A id \in RobotIds :
           LET before == TrailOf(id)
               after == Get(robotStore'.trails, id, <<>>)
           IN  /\ NoEqualNeighbours(after)
               /\ (event'.op \in RobotWrites /\ event'.id = id /\ HasPosition(event'.robot)) =>
                      IF before # <<>> /\ Last(before) = Sample(event'.robot)
                      THEN after = before
                      ELSE AppendedOne(before, after, Sample(event'.robot))]_vars

\* C2, its case: a robot that had moved reported its position once more and
\* its trail, below the cap, has the length it had.
C2_Witness ==
    /\ event.op = "robot.updated"
    /\ HasPosition(event.robot)
    /\ event.n >= 2
    /\ event.n < MAX_TRAIL_POINTS
    /\ Len(TrailOf(event.id)) = event.n
    /\ Last(TrailOf(event.id)) = Sample(event.robot)

(***************************************************************************)
(* The robot and mission maps under the router: any robot.updated,         *)
(* state.sync and mission.updated messages, in any order.                  *)
(***************************************************************************)

\* messages handled in one session of this scenario
MaxRobotMsgs == 4

RobotPayloads ==
    { Robot(id, position, tier, "active") :
          id \in RobotIds, position \in {Position(0, 0), Position(1, 0)},
          tier \in {"assisted", "supervised"} }

SnapshotRobots ==
    { EmptyMap,
      [id \in {"r1"} |-> Robot(id, Position(1, 1), "manual", "idle")],
      [id \in RobotIds |-> Robot(id, Position(0, 1), "assisted", "idle")] }

MissionPayloads == { Mission(id, status) : id \in {"m1", "m2"}, status \in {"active", "draft"} }

SnapshotMissions == { EmptyMap, [id \in {"m2"} |-> Mission(id, "paused")] }

SyncPayloads ==
    { StateSync(robots, TRUE, missions) : robots \in SnapshotRobots, missions \in SnapshotMissions }
    \cup { StateSync(robots, FALSE, EmptyMap) : robots \in SnapshotRobots }

RobotsBudget ==
    /\ spent < MaxRobotMsgs
    /\ spent' = spent + 1
    /\ UNCHANGED <<hookVars, sendVars, runs, tick, deskVars>>

RobotsUpdated(robot) ==
    /\ RobotsBudget
    /\ OnRobotUpdated(robot)
    /\ received' = Append(received, robot)
    /\ base' = base

RobotsStateSync(payload) ==
    /\ RobotsBudget
    /\ OnStateSync(payload)
    /\ received' = <<>>
    /\ base' = robotStore'.robots

RobotsMissionUpdated(mission) ==
    /\ RobotsBudget
    /\ OnMissionUpdated(mission)
    /\ UNCHANGED robotHist

NextRobots ==
    \/ \E robot \in RobotPayloads : RobotsUpdated(robot)
    \/ \E payload \in SyncPayloads : RobotsStateSync(payload)
    \/ \E mission \in MissionPayloads : RobotsMissionUpdated(mission)

SpecRobots == Init /\ [][NextRobots]_vars

\* upserting each payload by its id, one at a time, in arrival order
RECURSIVE UpsertedInOrder(_, _)
UpsertedInOrder(robots, payloads) ==
    IF payloads = <<>>
    THEN robots
    ELSE UpsertedInOrder(Put(robots, Head(payloads).id, Head(payloads)), Tail(payloads))

\* the places in the sequence of the payloads for one id
PlacesOf(id, payloads) == { i \in 1 .. Len(payloads) : payloads[i].id = id }

Latest(places) == CHOOSE i \in places : \A j \in places : j <= i

\* C3: after any sequence of robot.updated messages the robot map is the map
\* they were applied to with every payload upserted by id in arrival order; for
\* every id it holds the payload of the last message for that id, and every
\* message left its sample on the trail unless it repeated the last one.
C3_UpdatesAppliedInOrder ==
    /\ robotStore.robots = UpsertedInOrder(base, received)
    /\ \A id \in RobotIds :
           LET places == PlacesOf(id, received)
           IN  IF places = {}
               THEN (id \in DOMAIN robotStore.robots) = (id \in DOMAIN base)
               ELSE /\ id \in DOMAIN robotStore.robots
                    /\ robotStore.robots[id] = received[Latest(places)]
                    /\ Last(TrailOf(id)) = Sample(received[Latest(places)])

\* C3, its case: three messages, two for one robot with another robot's
\* between them, and the first robot holds its second payload.
C3_Witness ==
    /\ Len(received) = 3
    /\ received[1].id = received[3].id
    /\ received[2].id # received[1].id
    /\ received[1] # received[3]
    /\ robotStore.robots[received[1].id] = received[3]
    /\ Len(TrailOf(received[1].id)) = 2

\* C4: a state.sync leaves the robot map equal to the snapshot's robots, and
\* the mission map equal to the snapshot's missions when it carries missions,
\* as it was when it carries none.
C4_SnapshotReplaces ==
    [][event'.op = "state.sync" =>
           /\ robotStore'.robots = event'.arg.robots
           /\ event'.arg.hasMissions => missionStore'.missions = event'.arg.missions
           /\ ~event'.arg.hasMissions => missionStore'.missions = missionStore.missions]_vars

\* C4, its case: a snapshot without missions and without one of the two robots
\* held before it arrived; that robot is gone and the missions are still there.
C4_Witness ==
    /\ event.op = "state.sync"
    /\ ~event.arg.hasMissions
    /\ event.n = 2
    /\ DOMAIN robotStore.robots = {"r1"}
    /\ robotStore.robots = event.arg.robots
    /\ DOMAIN missionStore.missions # {}

(***************************************************************************)
(* The command tracker under the router: any command.status messages       *)
(***************************************************************************)

CommandIds == {"c1", "c2"}

\* a command record as the fleet side first reports it, with its type
ReportedCommands ==
    { [id |-> "c1", robotId |-> "r1", status |-> "pending", commandType |-> "goto"] }

CommandPayloads ==
    { Command(id, robotId, status) :
          id \in CommandIds, robotId \in RobotIds, status \in CommandStatuses }
    \cup ReportedCommands

CommandsStatus(cmd) ==
    /\ OnCommandStatus(cmd)
    /\ UNCHANGED <<hookVars, sendVars, runs, tick, robotHist, spent, deskVars>>

NextCommands == \E cmd \in CommandPayloads : CommandsStatus(cmd)

SpecCommands == Init /\ [][NextCommands]_vars

\* the lifecycle stage of a status: pending < sent < acknowledged < completed, failed
Stage(status) ==
    CASE status = "pending" -> 0
      [] status = "sent" -> 1
      [] status = "acknowledged" -> 2
      [] OTHER -> 3

\* C10: for every command id the stored status never moves to an earlier
\* stage of pending < sent < acknowledged < completed/failed.
C10_StatusNeverRegresses ==
    [][\A id \in (DOMAIN commandStore.commands) \cap (DOMAIN commandStore'.commands) :
           Stage(commandStore'.commands[id].status) >= Stage(commandStore.commands[id].status)]_vars

(***************************************************************************)
(* useWebSocket: the sockets, the reconnect timer and the effect           *)
(***************************************************************************)

\* the effect runs again after a cleanup (a remount of the same hook instance)
MaxRuns == 2

\* sends the operator issues in one session
MaxSends == 1

Created == { s \in SocketIds : readyState[s] # "NONE" }

IsOpen(s) == s # None /\ readyState[s] = "OPEN"

\* new WebSocket(WS_URL): the next socket
Fresh == CHOOSE s \in SocketIds \ Created : \A t \in SocketIds \ Created : s <= t

\* WebSocket.close(): a connecting or open socket starts closing, and its close
\* event follows later; on a closing or closed socket it does nothing
wsClose(states, s) ==
    IF s # None /\ states[s] \in {"CONNECTING", "OPEN"}
    THEN [states EXCEPT ![s] = "CLOSING"]
    ELSE states

\* A plausible slip: no check of the current socket, every call opens a socket.
connectAlways ==
    /\ SocketIds \ Created # {}
    /\ readyState' = [readyState EXCEPT ![Fresh] = "CONNECTING"]
    /\ wsRef' = Fresh

\* connect (lib.ts:724-728): nothing while the current socket is open, else a
\* new socket becomes the current one, with the handlers below
connect ==
    IF IsOpen(wsRef)
    THEN UNCHANGED <<readyState, wsRef>>
    ELSE /\ SocketIds \ Created # {}
         /\ readyState' = [readyState EXCEPT ![Fresh] = "CONNECTING"]
         /\ wsRef' = Fresh

connFrame ==
    UNCHANGED <<robotStore, missionStore, autonomyStore, tierCalls, tick, applied, robotHist,
                spent, deskVars>>

\* A plausible slip: envelopes refused while nothing was open are kept and
\* flushed by the next open.
onopenFlushing(s) ==
    /\ connectionStore' = [connected |-> TRUE, reconnecting |-> FALSE]
    /\ commandStore' = [commandStore EXCEPT !.sendFn = s]
    /\ wire' = wire \cup { [socket |-> s, envelope |-> e] : e \in issued }

\* A plausible slip: the open sets connected and forgets reconnecting.
onopenKeepsReconnecting(s) ==
    /\ connectionStore' = [connectionStore EXCEPT !.connected = TRUE]
    /\ commandStore' = [commandStore EXCEPT !.sendFn = s]
    /\ wire' = wire

\* ws.onopen (lib.ts:730-741): the flags and the send function; nothing is sent
onopen(s) ==
    /\ connectionStore' = [connected |-> TRUE, reconnecting |-> FALSE]
    /\ commandStore' = [commandStore EXCEPT !.sendFn = s]
    /\ wire' = wire

\* the socket's open event
SocketOpened(s) ==
    /\ readyState[s] = "CONNECTING"
    /\ readyState' = [readyState EXCEPT ![s] = "OPEN"]
    /\ onopen(s)
    /\ event' = Event("ws.open", "", NoRobot, s, NoArg)
    /\ UNCHANGED <<wsRef, reconnectTimer, timers, mounted, runs, threw, issued, nextMsg>>
    /\ connFrame

\* A plausible slip: the retry is scheduled for the first close only.
oncloseOnce(s) ==
    /\ connectionStore' = [connected |-> FALSE, reconnecting |-> TRUE]
    /\ commandStore' = [commandStore EXCEPT !.sendFn = None]
    /\ timers' = IF reconnectTimer = None THEN timers \cup {s} ELSE timers
    /\ reconnectTimer' = IF reconnectTimer = None THEN s ELSE reconnectTimer

\* ws.onclose (lib.ts:806-812); the timer it schedules is named after the socket
onclose(s) ==
    /\ connectionStore' = [connected |-> FALSE, reconnecting |-> TRUE]
    /\ commandStore' = [commandStore EXCEPT !.sendFn = None]
    /\ timers' = timers \cup {s}
    /\ reconnectTimer' = s

\* The socket's connection ended, cleanly or not: readyState becomes CLOSED,
\* then the error event if it failed (ws.onerror calls ws.close(), lib.ts:814-816,
\* which does nothing on a closed socket), then the close event.
SocketClosed(s, failed) ==
    /\ readyState[s] \in {"CONNECTING", "OPEN", "CLOSING"}
    /\ readyState' = IF failed
                     THEN wsClose([readyState EXCEPT ![s] = "CLOSED"], s)
                     ELSE [readyState EXCEPT ![s] = "CLOSED"]
    /\ onclose(s)
    /\ event' = Event(IF failed THEN "ws.error" ELSE "ws.close", "", NoRobot, s, NoArg)
    /\ UNCHANGED <<wsRef, mounted, runs, sendVars>>
    /\ connFrame

\* the reconnect timer fired: window.setTimeout(connect, 3000)
TimerFired(t) ==
    /\ t \in timers
    /\ timers' = timers \ {t}
    /\ connect
    /\ event' = Event("timer", "", NoRobot, t, NoArg)
    /\ UNCHANGED <<connectionStore, commandStore, reconnectTimer, mounted, runs, sendVars>>
    /\ connFrame

\* the effect ran (lib.ts:827-828)
EffectRun ==
    /\ ~mounted
    /\ runs < MaxRuns
    /\ mounted' = TRUE
    /\ runs' = runs + 1
    /\ connect
    /\ event' = Event("effect", "", NoRobot, 0, NoArg)
    /\ UNCHANGED <<connectionStore, commandStore, reconnectTimer, timers, sendVars>>
    /\ connFrame

\* the effect's cleanup (lib.ts:829-832)
EffectCleanup ==
    /\ mounted
    /\ mounted' = FALSE
    /\ timers' = timers \ {reconnectTimer}
    /\ readyState' = wsClose(readyState, wsRef)
    /\ event' = Event("cleanup", "", NoRobot, 0, NoArg)
    /\ UNCHANGED <<connectionStore, commandStore, wsRef, reconnectTimer, runs, sendVars>>
    /\ connFrame

(***************************************************************************)
(* The send paths                                                          *)
(***************************************************************************)

Envelope(n, via, robotId) == [n |-> n, via |-> via, robotId |-> robotId]

\* the list sendBatchCommand is given
Batches == { <<"r1", "r2">>, <<"r2">> }

\* WebSocket.send: throws on a connecting socket, transmits on an open one,
\* and silently discards on a closing or closed one
wsSend(net, s, envelope) ==
    CASE readyState[s] = "CONNECTING" -> [net EXCEPT !.threw = TRUE]
      [] readyState[s] = "OPEN" -> [net EXCEPT !.wire = @ \cup {[socket |-> s, envelope |-> envelope]}]
      [] OTHER -> net

\* the function ws.onopen installs (lib.ts:733-739); s is the socket it closes over
sendFn(net, s, envelope) ==
    IF readyState[s] = "OPEN" THEN wsSend(net, s, envelope) ELSE net

\* useWebSocket's send (lib.ts:819-825)
send(net, envelope) ==
    IF IsOpen(wsRef) THEN wsSend(net, wsRef, envelope) ELSE net

\* sendCommand (lib.ts:332-337)
sendCommand(net, robotId) ==
    IF commandStore.sendFn # None
    THEN sendFn(net, commandStore.sendFn, Envelope(nextMsg, "sendCommand", robotId))
    ELSE net

RECURSIVE sendEach(_, _)
sendEach(net, robotIds) ==
    IF robotIds = <<>>
    THEN net
    ELSE sendEach(sendFn(net, commandStore.sendFn, Envelope(nextMsg, "sendBatchCommand", Head(robotIds))),
                  Tail(robotIds))

\* sendBatchCommand (lib.ts:339-346)
sendBatchCommand(net, robotIds) ==
    IF commandStore.sendFn # None THEN sendEach(net, robotIds) ELSE net

Net == [wire |-> wire, threw |-> threw]

NoneOpen == \A s \in SocketIds : readyState[s] # "OPEN"

\* one call of a send path: what it did to the network, and the record of the
\* envelopes it was given while no socket was open
Sent(net, envelopes, op) ==
    /\ nextMsg <= MaxSends
    /\ nextMsg' = nextMsg + 1
    /\ wire' = net.wire
    /\ threw' = net.threw
    /\ issued' = IF NoneOpen THEN issued \cup envelopes ELSE issued
    /\ event' = Event(op, "", NoRobot, nextMsg, NoArg)
    /\ UNCHANGED <<connectionStore, commandStore, hookVars, runs>>
    /\ connFrame

HookSend ==
    LET envelope == Envelope(nextMsg, "send", "r1")
    IN  Sent(send(Net, envelope), {envelope}, "send")

SendCommand(robotId) ==
    Sent(sendCommand(Net, robotId), {Envelope(nextMsg, "sendCommand", robotId)}, "sendCommand")

SendBatchCommand(robotIds) ==
    Sent(sendBatchCommand(Net, robotIds),
         { Envelope(nextMsg, "sendBatchCommand", robotIds[i]) : i \in DOMAIN robotIds },
         "sendBatchCommand")

\* the hook's own events
NextHook ==
    \/ EffectRun
    \/ EffectCleanup
    \/ \E s \in SocketIds : SocketOpened(s)
    \/ \E s \in SocketIds, failed \in BOOLEAN : SocketClosed(s, failed)
    \/ \E t \in SocketIds : TimerFired(t)

SpecHook == Init /\ [][NextHook]_vars

\* a timer the browser holds pending does fire
SpecHookFair == SpecHook /\ \A t \in SocketIds : WF_vars(TimerFired(t))

\* the hook's events and the operator's sends
NextConn ==
    \/ HookSend
    \/ SendCommand("r1")
    \/ \E robotIds \in Batches : SendBatchCommand(robotIds)
    \/ EffectRun
    \/ EffectCleanup
    \/ \E s \in SocketIds : SocketOpened(s)
    \/ \E s \in SocketIds, failed \in BOOLEAN : SocketClosed(s, failed)
    \/ \E t \in SocketIds : TimerFired(t)

SpecConn == Init /\ [][NextConn]_vars

(***************************************************************************)
(* Claims about the connection                                             *)
(***************************************************************************)

CloseDelivered(s) == readyState[s] # "CLOSED" /\ readyState'[s] = "CLOSED"

OpenDelivered(s) == readyState[s] = "CONNECTING" /\ readyState'[s] = "OPEN"

Later(s) == { t \in Created : t > s }

\* C5: when a socket's close event (after an error too) is delivered in a live
\* session, connected is false and reconnecting is true afterwards and exactly
\* one reconnect timer is added, the one now held in reconnectTimer; and in a
\* session that stays live every close of the current socket is followed by the
\* creation of a new socket, for each close in turn (the last socket the bound
\* allows is left out).
C5_CloseSchedulesReconnect ==
    /\ [][\A s \in SocketIds :
            (mounted /\ CloseDelivered(s)) =>
                /\ connectionStore' = [connected |-> FALSE, reconnecting |-> TRUE]
                /\ s \notin timers
                /\ timers' = timers \cup {s}
                /\ reconnectTimer' = s]_vars
    /\ \A s \in SocketIds \ {MaxSockets} :
            (mounted /\ wsRef = s /\ readyState[s] = "CLOSED" /\ s \in timers)
                ~> (~mounted \/ Later(s) # {})

C5_Witness ==
    /\ runs = 1
    /\ mounted
    /\ readyState[1] = "CLOSED"
    /\ readyState[2] = "CLOSED"
    /\ readyState[3] = "OPEN"
    /\ event.op = "ws.open"
    /\ timers = {}

\* C6: when a socket opens, connected is true, reconnecting is false, the send
\* function is installed and no reconnect timer is pending.
C6_OpenLeavesNoTimer ==
    [][\A s \in SocketIds :
        OpenDelivered(s) =>
            /\ connectionStore' = [connected |-> TRUE, reconnecting |-> FALSE]
            /\ commandStore'.sendFn = s
            /\ timers' = {}]_vars

TornDown == ~mounted /\ runs >= 1

\* C7: once the effect's cleanup has run, and until the effect runs again, no
\* reconnect timer is pending, none is scheduled and no socket is created,
\* whatever event arrives.
C7_TeardownStopsReconnect ==
    [][TornDown' => (timers' = {} /\ (TornDown => Created' = Created))]_vars

\* C8: an envelope given to useWebSocket's send, sendCommand or sendBatchCommand
\* while no socket is open is never transmitted, then or after a reconnect, and
\* no send path ever throws.
C8_ClosedSendsAreDropped ==
    /\ threw = FALSE
    /\ \A w \in wire : w.envelope \notin issued

C8_Witness ==
    /\ issued # {}
    /\ wire = {}
    /\ readyState[1] = "CLOSED"
    /\ event.op = "ws.open"
    /\ \E s \in SocketIds \ {1} : IsOpen(s) /\ commandStore.sendFn = s
    /\ connectionStore.connected

\* C9: connect(), called by the reconnect timer or the effect while the
\* current socket (wsRef.current) is open, creates no socket and leaves the
\* sockets, the refs, the stores and the network as they were.
C9_ConnectWhileOpenIsNoOp ==
    [][(event'.op \in {"timer", "effect"} /\ IsOpen(wsRef)) =>
        UNCHANGED <<readyState, wsRef, reconnectTimer, storeVars, wire, threw>>]_vars

C9_Witness ==
    /\ event.op = "timer"
    /\ IsOpen(wsRef)
    /\ connectionStore.connected
    /\ Cardinality(Created) = 2

(***************************************************************************)
(* useUIStore and the command builder                                      *)
(***************************************************************************)

\* CommandMode, lib.ts:353
CommandModes == {"none", "goto", "set_home", "set_waypoints", "circle_area"}

\* addWaypoint (lib.ts:421-423)
addWaypoint(state, lat, lng) ==
    [state EXCEPT !.pendingWaypoints = Append(@, Point(lat, lng))]

\* undoWaypoint (lib.ts:424-425): slice(0, -1)
undoWaypoint(state) ==
    [state EXCEPT !.pendingWaypoints = IF @ = <<>> THEN <<>> ELSE SubSeq(@, 1, Len(@) - 1)]

\* clearWaypoints (lib.ts:426)
clearWaypoints(state) == [state EXCEPT !.pendingWaypoints = <<>>]

\* setCircleCenter (lib.ts:430)
setCircleCenter(state, center) == [state EXCEPT !.circleCenter = center]

\* setCircleRadius (lib.ts:431)
setCircleRadius(state, radius) == [state EXCEPT !.circleRadius = radius]

\* clearSelection (lib.ts:442)
clearSelection(state) == [state EXCEPT !.selectedRobotIds = <<>>]

\* toggleAlertsPanel (lib.ts:490-491)
toggleAlertsPanel(state) == [state EXCEPT !.alertsPanelOpen = ~@]

\* toggleSettingsPanel (lib.ts:493-494)
toggleSettingsPanel(state) == [state EXCEPT !.settingsPanelOpen = ~@]

\* A plausible slip: the selection changes and the mode and drafts stay.
selectRobotKeepingDraft(state, id) == [state EXCEPT !.selectedRobotId = id]

\* selectRobot (lib.ts:476-482)
selectRobot(state, id) ==
    [state EXCEPT !.selectedRobotId = id, !.commandMode = "none",
                  !.pendingWaypoints = <<>>, !.circleCenter = NoPoint]

\* setCommandMode (lib.ts:484-488)
setCommandMode(state, mode) ==
    IF mode = "none"
    THEN [state EXCEPT !.commandMode = mode, !.pendingWaypoints = <<>>, !.circleCenter = NoPoint]
    ELSE [state EXCEPT !.commandMode = mode]

\* { latitude: lat, longitude: lng }, the parameters of goto and set_home
\* (App.tsx:1464, 1468)
LatLng(lat, lng) == [latitude |-> lat, longitude |-> lng]

\* the arguments of one call of sendCommand(robotId, commandType, parameters)
CommandSent(robotId, commandType, parameters) ==
    [robotId |-> robotId, commandType |-> commandType, parameters |-> parameters]

\* a call of sendCommand by a component: the call is noted, and the envelope
\* goes the way of sendCommand (lib.ts:332-337)
CallSendCommand(robotId, commandType, parameters) ==
    LET net == sendCommand(Net, robotId)
    IN  /\ emitted' = Append(emitted, CommandSent(robotId, commandType, parameters))
        /\ wire' = net.wire
        /\ threw' = net.threw
        /\ issued' = IF NoneOpen
                     THEN issued \cup {Envelope(nextMsg, "sendCommand", robotId)}
                     ELSE issued
        /\ nextMsg' = nextMsg + 1

NoCommand == UNCHANGED <<emitted, sendVars>>

uiFrame ==
    UNCHANGED <<storeVars, tierCalls, applied, aiVars, uncaught, pending, hookVars, tick,
                robotHist, runs>>

\* what a click, an undo, a clear or a send met: the mode, the selection, the draft
Met == [mode |-> uiStore.commandMode, selected |-> uiStore.selectedRobotId,
        draft |-> uiStore.pendingWaypoints, center |-> uiStore.circleCenter]

\* a robot row or marker was clicked, or the panel closed (App.tsx:662, 1097, 1626)
SelectRobot(id) ==
    /\ uiStore' = selectRobot(uiStore, id)
    /\ event' = Event("selectRobot", id, NoRobot, 0, [met |-> Met])
    /\ NoCommand
    /\ uiFrame

\* CommandPalette.handleCommand for a map mode (App.tsx:262-267), in the detail
\* panel of the selected robot (App.tsx:642-645)
HandleCommand(mode) ==
    /\ uiStore.selectedRobotId \in DOMAIN robotStore.robots
    /\ uiStore' = setCommandMode(uiStore, IF uiStore.commandMode = mode THEN "none" ELSE mode)
    /\ event' = Event("handleCommand", mode, NoRobot, 0, NoArg)
    /\ NoCommand
    /\ uiFrame

\* A plausible slip: the set_home case falls out of the switch without leaving
\* the mode.
handleClickStaysInMode(lat, lng) ==
    LET cm == uiStore.commandMode
        selectedRobotId == uiStore.selectedRobotId
    IN  IF selectedRobotId = ""
        THEN UNCHANGED uiStore /\ NoCommand
        ELSE CASE cm = "goto" ->
                    /\ CallSendCommand(selectedRobotId, "goto", LatLng(lat, lng))
                    /\ uiStore' = setCommandMode(uiStore, "none")
               [] cm = "set_home" ->
                    /\ CallSendCommand(selectedRobotId, "set_home", LatLng(lat, lng))
                    /\ UNCHANGED uiStore
               [] cm = "set_waypoints" ->
                    /\ uiStore' = addWaypoint(uiStore, lat, lng)
                    /\ NoCommand
               [] cm = "circle_area" ->
                    /\ uiStore' = IF uiStore.circleCenter = NoPoint
                                  THEN setCircleCenter(uiStore, Point(lat, lng))
                                  ELSE uiStore
                    /\ NoCommand
               [] OTHER -> UNCHANGED uiStore /\ NoCommand

\* MapView.handleClick (App.tsx:1455-1482)
handleClick(lat, lng) ==
    LET cm == uiStore.commandMode
        selectedRobotId == uiStore.selectedRobotId
    IN  IF selectedRobotId = ""
        THEN UNCHANGED uiStore /\ NoCommand
        ELSE CASE cm = "goto" ->
                    /\ CallSendCommand(selectedRobotId, "goto", LatLng(lat, lng))
                    /\ uiStore' = setCommandMode(uiStore, "none")
               [] cm = "set_home" ->
                    /\ CallSendCommand(selectedRobotId, "set_home", LatLng(lat, lng))
                    /\ uiStore' = setCommandMode(uiStore, "none")
               [] cm = "set_waypoints" ->
                    /\ uiStore' = addWaypoint(uiStore, lat, lng)
                    /\ NoCommand
               [] cm = "circle_area" ->
                    /\ uiStore' = IF uiStore.circleCenter = NoPoint
                                  THEN setCircleCenter(uiStore, Point(lat, lng))
                                  ELSE uiStore
                    /\ NoCommand
               [] OTHER -> UNCHANGED uiStore /\ NoCommand

\* the map was clicked
MapClicked(lat, lng) ==
    /\ handleClick(lat, lng)
    /\ event' = Event("map.click", "", NoRobot, 0, [met |-> Met, point |-> Point(lat, lng)])
    /\ uiFrame

\* MapView.handleMapClick (part_000:575-597); the radius it sends is the
\* literal 150
handleMapClick(lat, lng) ==
    LET commandMode == uiStore.commandMode
        selectedId == uiStore.selectedRobotId
        Send(commandType, parameters) ==
            IF selectedId # ""
            THEN CallSendCommand(selectedId, commandType, parameters)
            ELSE NoCommand
    IN  CASE commandMode = "goto" ->
                /\ Send("goto", LatLng(lat, lng))
                /\ uiStore' = setCommandMode(uiStore, "none")
          [] commandMode = "set_home" ->
                /\ Send("set_home", LatLng(lat, lng))
                /\ uiStore' = setCommandMode(uiStore, "none")
          [] commandMode = "set_waypoints" ->
                /\ uiStore' = addWaypoint(uiStore, lat, lng)
                /\ NoCommand
          [] commandMode = "circle_area" ->
                /\ Send("circle_area",
                        [latitude |-> lat, longitude |-> lng, radius |-> 150])
                /\ uiStore' = setCommandMode(setCircleCenter(uiStore, Point(lat, lng)), "none")
          [] OTHER -> UNCHANGED uiStore /\ NoCommand

\* the map of part_000 was clicked
PartMapClicked(lat, lng) ==
    /\ handleMapClick(lat, lng)
    /\ event' = Event("map.click", "", NoRobot, 1, [met |-> Met, point |-> Point(lat, lng)])
    /\ uiFrame

\* CircleToolbar (App.tsx:1362-1409) is there in circle_area mode once the
\* center is set
CircleShown == uiStore.commandMode = "circle_area" /\ uiStore.circleCenter # NoPoint

\* CircleToolbar, the radius slider (App.tsx:1394-1397)
CircleRadiusSet(radius) ==
    /\ CircleShown
    /\ uiStore' = setCircleRadius(uiStore, radius)
    /\ event' = Event("circle.radius", "", NoRobot, radius, [met |-> Met])
    /\ NoCommand
    /\ uiFrame

\* CircleToolbar.handleConfirm (App.tsx:1374-1383)
CircleConfirm ==
    /\ CircleShown
    /\ IF uiStore.selectedRobotId = ""
       THEN UNCHANGED uiStore /\ NoCommand
       ELSE /\ CallSendCommand(uiStore.selectedRobotId, "circle_area",
                               [latitude |-> uiStore.circleCenter.lat,
                                longitude |-> uiStore.circleCenter.lng,
                                radius |-> uiStore.circleRadius])
            /\ uiStore' = setCommandMode(setCircleCenter(uiStore, NoPoint), "none")
    /\ event' = Event("circle.confirm", "", NoRobot, 0, [met |-> Met])
    /\ uiFrame

\* CircleToolbar.handleCancel (App.tsx:1385-1388)
CircleCancel ==
    /\ CircleShown
    /\ uiStore' = setCommandMode(setCircleCenter(uiStore, NoPoint), "none")
    /\ event' = Event("circle.cancel", "", NoRobot, 0, [met |-> Met])
    /\ NoCommand
    /\ uiFrame

\* the elements a key press can come from: the page, or a field such as the
\* search box (App.tsx:1742) or the radius slider (App.tsx:1394)
Tags == {"BODY", "INPUT"}

\* useKeyboardShortcuts, the handler on Escape (lib.ts:890-909)
KeyEscape(tag) ==
    /\ uiStore' =
           IF tag \in {"INPUT", "TEXTAREA", "SELECT"} THEN uiStore
           ELSE IF uiStore.commandMode # "none" THEN setCommandMode(uiStore, "none")
           ELSE IF Len(uiStore.selectedRobotIds) > 0 THEN clearSelection(uiStore)
           ELSE IF uiStore.selectedRobotId # "" THEN selectRobot(uiStore, "")
           ELSE IF uiStore.alertsPanelOpen THEN toggleAlertsPanel(uiStore)
           ELSE IF uiStore.settingsPanelOpen THEN toggleSettingsPanel(uiStore)
           ELSE uiStore
    /\ event' = Event("key.Escape", tag, NoRobot, 0, [met |-> Met])
    /\ NoCommand
    /\ uiFrame

\* WaypointToolbar (App.tsx:1323-1358) is there in set_waypoints mode when the
\* draft is not empty
ToolbarShown == uiStore.commandMode = "set_waypoints" /\ uiStore.pendingWaypoints # <<>>

\* WaypointToolbar, Undo
ToolbarUndo ==
    /\ ToolbarShown
    /\ uiStore' = undoWaypoint(uiStore)
    /\ event' = Event("waypoints.undo", "", NoRobot, 0, [met |-> Met])
    /\ NoCommand
    /\ uiFrame

\* WaypointToolbar, Clear (App.tsx:1350)
ToolbarClear ==
    /\ ToolbarShown
    /\ uiStore' = setCommandMode(clearWaypoints(uiStore), "none")
    /\ event' = Event("waypoints.clear", "", NoRobot, 0, [met |-> Met])
    /\ NoCommand
    /\ uiFrame

\* the waypoints as the toolbar sends them (App.tsx:1336)
ToolbarWaypoints(draft) ==
    [waypoints |-> [i \in 1..Len(draft) |-> LatLng(draft[i].lat, draft[i].lng)]]

\* the waypoints as the editor sends them (part_000:270); sequence and id count
\* from 0
EditorWaypoints(draft) ==
    [waypoints |->
        [i \in 1..Len(draft) |->
            [latitude |-> draft[i].lat, longitude |-> draft[i].lng, altitude |-> 0,
             sequence |-> i - 1, action |-> "waypoint", parameters |-> EmptyMap,
             status |-> "pending", id |-> i - 1]]]

\* WaypointToolbar.handleSend (App.tsx:1334-1340)
ToolbarSend ==
    /\ ToolbarShown
    /\ IF uiStore.selectedRobotId = "" \/ uiStore.pendingWaypoints = <<>>
       THEN UNCHANGED uiStore /\ NoCommand
       ELSE /\ CallSendCommand(uiStore.selectedRobotId, "follow_waypoints",
                               ToolbarWaypoints(uiStore.pendingWaypoints))
            /\ uiStore' = setCommandMode(clearWaypoints(uiStore), "none")
    /\ event' = Event("waypoints.send", "", NoRobot, 0, [met |-> Met])
    /\ uiFrame

\* WaypointEditor (part_000:243-312): its CLEAR, UNDO and SEND are there while
\* the draft is not empty; the editor is opened on entering set_waypoints
EditorShown == uiStore.commandMode = "set_waypoints" /\ uiStore.pendingWaypoints # <<>>

\* WaypointEditor, UNDO
EditorUndo ==
    /\ EditorShown
    /\ uiStore' = undoWaypoint(uiStore)
    /\ event' = Event("waypoints.undo", "", NoRobot, 1, [met |-> Met])
    /\ NoCommand
    /\ uiFrame

\* WaypointEditor, CLEAR: clearWaypoints alone
EditorClear ==
    /\ EditorShown
    /\ uiStore' = clearWaypoints(uiStore)
    /\ event' = Event("waypoints.clear", "", NoRobot, 1, [met |-> Met])
    /\ NoCommand
    /\ uiFrame

\* WaypointEditor.sendWaypoints (part_000:267-275)
EditorSend ==
    /\ EditorShown
    /\ IF uiStore.selectedRobotId = "" \/ uiStore.pendingWaypoints = <<>>
       THEN UNCHANGED uiStore /\ NoCommand
       ELSE /\ CallSendCommand(uiStore.selectedRobotId, "set_waypoints",
                               EditorWaypoints(uiStore.pendingWaypoints))
            /\ uiStore' = setCommandMode(clearWaypoints(uiStore), "none")
    /\ event' = Event("waypoints.send", "", NoRobot, 1, [met |-> Met])
    /\ uiFrame

(***************************************************************************)
(* Suggestions, countdowns and tiers on the operator's desk: the server    *)
(* announces suggestions and, for a pending one of a supervised robot, a   *)
(* countdown in the message after; the operator changes tiers and answers  *)
(* the cards.                                                              *)
(***************************************************************************)

MaxAutonomySteps == 5

SuggestionIds == {"s1", "s2"}

\* s1 is about r1 and proposes an action, s2 is about r2 and may propose none
SuggestionPayloads ==
    { Suggestion("s1", "r1", status, TRUE) : status \in SuggestionStatuses }
    \cup { Suggestion("s2", "r2", "pending", proposedAction) : proposedAction \in BOOLEAN }

FleetOnWatch ==
    [id \in RobotIds |->
        Robot(id, NoPosition, IF id = "r1" THEN "supervised" ELSE "manual", "active")]

\* the tiers the server and the operator move a robot to
TierChanges == { <<"r1", "assisted">>, <<"r1", "autonomous">>, <<"r2", "supervised">> }

AutonomyStep ==
    /\ spent < MaxAutonomySteps
    /\ spent' = spent + 1
    /\ UNCHANGED <<hookVars, sendVars, tick, robotHist, runs>>

AutonomyReply == UNCHANGED <<hookVars, sendVars, tick, robotHist, runs, spent>>

\* the socket delivers in order: nothing overtakes a countdown on its way
InOrder == owed = {}

AutonomyStateSync ==
    /\ AutonomyStep
    /\ InOrder
    /\ OnStateSync(StateSync(FleetOnWatch, FALSE, EmptyMap))
    /\ UNCHANGED deskVars

AutonomySuggestion(suggestion) ==
    /\ AutonomyStep
    /\ InOrder
    /\ OnAiSuggestion(suggestion)
    /\ owed' = IF suggestion.status = "pending" /\ TierOf(suggestion.robotId) = "supervised"
               THEN {Countdown(suggestion.id, suggestion.robotId)}
               ELSE {}

AutonomyCountdown(countdown) ==
    /\ AutonomyStep
    /\ countdown \in owed
    /\ OnAutonomyCountdown(countdown)
    /\ owed' = owed \ {countdown}

AutonomyChanged(robotId, tier) ==
    /\ AutonomyStep
    /\ InOrder
    /\ OnAutonomyChanged(ChangeEntry(robotId, tier))
    /\ UNCHANGED deskVars

\* AutonomyTierSelector (App.tsx:125-147): a button of the selected robot's
\* panel, for a tier other than the current one
AutonomySetRobotTier(robotId, tier) ==
    /\ AutonomyStep
    /\ robotId \in DOMAIN robotStore.robots
    /\ tier # TierOf(robotId)
    /\ SetRobotTier(robotId, tier)
    /\ UNCHANGED deskVars

AutonomyTierResolved(call, ok) ==
    /\ AutonomyReply
    /\ SetRobotTierResolved(call, ok)
    /\ UNCHANGED deskVars

AutonomyTierRejected(call) ==
    /\ AutonomyReply
    /\ SetRobotTierRejected(call)
    /\ UNCHANGED deskVars

AutonomyApprove(card, id) == AutonomyStep /\ Approve(card, id) /\ UNCHANGED owed

AutonomyDismiss(card, id) == AutonomyStep /\ Dismiss(card, id) /\ UNCHANGED owed

AutonomyOverride(id) == AutonomyStep /\ Override(id) /\ UNCHANGED owed

AutonomyAiCallEnded(call, outcome) ==
    /\ AutonomyReply
    /\ AiCallEnded(call, outcome)
    /\ UNCHANGED owed

NextAutonomy ==
    \/ AutonomyStateSync
    \/ \E suggestion \in SuggestionPayloads : AutonomySuggestion(suggestion)
    \/ \E countdown \in owed : AutonomyCountdown(countdown)
    \/ \E change \in TierChanges : AutonomyChanged(change[1], change[2])
    \/ \E change \in TierChanges : AutonomySetRobotTier(change[1], change[2])
    \/ \E call \in tierCalls, ok \in BOOLEAN : AutonomyTierResolved(call, ok)
    \/ \E call \in tierCalls : AutonomyTierRejected(call)
    \/ \E card \in Cards, id \in SuggestionIds : AutonomyApprove(card, id)
    \/ \E card \in Cards, id \in SuggestionIds : AutonomyDismiss(card, id)
    \/ \E id \in SuggestionIds : AutonomyOverride(id)
    \/ \E call \in aiCalls, outcome \in Outcomes : AutonomyAiCallEnded(call, outcome)

SpecAutonomy == Init /\ [][NextAutonomy]_vars

(***************************************************************************)
(* The operator builds commands on the map                                 *)
(***************************************************************************)

MaxBuilderSteps == 6

\* where the operator clicks: (lat, lng)
Clicks == { <<1, 2>>, <<2, 1>> }

\* where the radius slider is put: its range is 50 to 500 (App.tsx:1395)
Radii == {50, CIRCLE_RADIUS}

\* what may be selected: a robot, or nothing
Selections == {"r1", "r2", ""}

\* the modes the palette toggles (App.tsx:262-267)
MapModes == CommandModes \ {"none"}

BuilderStep ==
    /\ spent < MaxBuilderSteps
    /\ spent' = spent + 1

\* the fleet arrives once the socket is open
BuilderStateSync ==
    /\ IsOpen(wsRef)
    /\ robotStore.robots = EmptyMap
    /\ OnStateSync(StateSync(FleetOnWatch, FALSE, EmptyMap))
    /\ UNCHANGED <<hookVars, sendVars, tick, robotHist, runs, spent, deskVars>>

BuilderSelect(id) ==
    /\ BuilderStep
    /\ SelectRobot(id)
    /\ clicked' = <<>>

BuilderCommand(mode) ==
    /\ BuilderStep
    /\ HandleCommand(mode)
    /\ clicked' = IF uiStore'.commandMode = "none" THEN <<>> ELSE clicked

BuilderClick(lat, lng) ==
    /\ BuilderStep
    /\ MapClicked(lat, lng)
    /\ clicked' = IF uiStore'.commandMode = "none"
                  THEN <<>>
                  ELSE IF uiStore.commandMode = "set_waypoints"
                       THEN Append(clicked, Point(lat, lng))
                       ELSE clicked

BuilderPartClick(lat, lng) ==
    /\ BuilderStep
    /\ PartMapClicked(lat, lng)
    /\ clicked' = IF uiStore'.commandMode = "none"
                  THEN <<>>
                  ELSE IF uiStore.commandMode = "set_waypoints"
                       THEN Append(clicked, Point(lat, lng))
                       ELSE clicked

BuilderRadius(radius) ==
    /\ BuilderStep
    /\ radius # uiStore.circleRadius
    /\ CircleRadiusSet(radius)
    /\ UNCHANGED clicked

BuilderCircleEnd ==
    /\ BuilderStep
    /\ CircleConfirm \/ CircleCancel
    /\ clicked' = <<>>

BuilderEscape(tag) ==
    /\ BuilderStep
    /\ KeyEscape(tag)
    /\ clicked' = IF uiStore'.commandMode = "none" THEN <<>> ELSE clicked

BuilderUndo ==
    /\ BuilderStep
    /\ ToolbarUndo \/ EditorUndo
    /\ clicked' = IF clicked = <<>> THEN <<>> ELSE SubSeq(clicked, 1, Len(clicked) - 1)

BuilderClear ==
    /\ BuilderStep
    /\ ToolbarClear \/ EditorClear
    /\ clicked' = <<>>

BuilderToolbarSend ==
    /\ BuilderStep
    /\ ToolbarSend
    /\ clicked' = <<>>

BuilderEditorSend ==
    /\ BuilderStep
    /\ EditorSend
    /\ clicked' = <<>>

NextBuilder ==
    \/ EffectRun
    \/ \E s \in SocketIds : SocketOpened(s)
    \/ BuilderStateSync
    \/ \E id \in Selections : BuilderSelect(id)
    \/ \E mode \in MapModes : BuilderCommand(mode)
    \/ \E c \in Clicks : BuilderClick(c[1], c[2])
    \/ \E c \in Clicks : BuilderPartClick(c[1], c[2])
    \/ \E radius \in Radii : BuilderRadius(radius)
    \/ BuilderCircleEnd
    \/ \E tag \in Tags : BuilderEscape(tag)
    \/ BuilderUndo
    \/ BuilderClear
    \/ BuilderToolbarSend
    \/ BuilderEditorSend

SpecBuilder == Init /\ [][NextBuilder]_vars

(***************************************************************************)
(* The router under any inbound text                                       *)
(***************************************************************************)

MaxRouterMsgs == 3

\* well-formed messages of the handled types
HandledMessages ==
    { WSMessage("state.sync", StateSync(FleetOnWatch, FALSE, EmptyMap)),
      WSMessage("state.sync", StateSync([id \in {"r1"} |-> Robot(id, Position(0, 1), "manual", "idle")],
                                        FALSE, EmptyMap)),
      WSMessage("robot.updated", Robot("r1", Position(1, 0), "assisted", "active")),
      WSMessage("command.status", Command("c1", "r1", "sent")),
      WSMessage("mission.updated", Mission("m1", "active")),
      WSMessage("mission.updated", Mission("m2", "draft")),
      WSMessage("ai.suggestion", Suggestion("s1", "r1", "pending", TRUE)),
      WSMessage("autonomy.changed", ChangeEntry("r1", "manual")),
      WSMessage("autonomy.changed", ChangeEntry(FleetSentinel, "supervised")),
      WSMessage("autonomy.countdown", Countdown("s1", "r1")) }

\* messages of types the switch does not name
UnknownMessages ==
    { WSMessage("robot.removed", Robot("r1", NoPosition, "manual", "offline")),
      WSMessage("heartbeat", Null) }

\* text that does not parse, the text "null", and handled types with a null payload
MalformedData ==
    { Data(FALSE, Null), Data(TRUE, Null) }
    \cup { Data(TRUE, WSMessage(type, Null)) : type \in HandledTypes }

InboundData ==
    { Data(TRUE, msg) : msg \in HandledMessages \cup UnknownMessages } \cup MalformedData

RouterReceived(data) ==
    /\ spent < MaxRouterMsgs
    /\ spent' = spent + 1
    /\ MessageReceived(data)

NextRouter == \E data \in InboundData : RouterReceived(data)

SpecRouter == Init /\ [][NextRouter]_vars

(***************************************************************************)
(* The change log under a long run of tier changes                         *)
(***************************************************************************)

\* tier changes in one session of this scenario
MaxChanges == 102

\* the changes arrive in rounds of three, the second about a robot that is
\* not in the robot map
ChangeRound ==
    << ChangeEntry(FleetSentinel, "supervised"), ChangeEntry("r2", "autonomous"),
       ChangeEntry("r1", "manual") >>

\* the k-th change of the session, the rounds alternating between two tiers
ChangeAt(k) ==
    LET entry == ChangeRound[((k - 1) % Len(ChangeRound)) + 1]
    IN  IF (k - 1) % (2 * Len(ChangeRound)) < Len(ChangeRound)
        THEN entry
        ELSE ChangeEntry(entry.robotId, "assisted")

\* the snapshot of this scenario holds r1 alone
ChangeLogStateSync ==
    /\ robotStore.robots = EmptyMap
    /\ OnStateSync(StateSync([id \in {"r1"} |-> FleetOnWatch[id]], FALSE, EmptyMap))
    /\ UNCHANGED <<hookVars, sendVars, runs, tick, robotHist, spent, deskVars>>

ChangeLogChanged ==
    /\ spent < MaxChanges
    /\ spent' = spent + 1
    /\ OnAutonomyChanged(ChangeAt(spent + 1))
    /\ UNCHANGED <<hookVars, sendVars, runs, tick, robotHist, deskVars>>

NextChangeLog ==
    \/ ChangeLogStateSync
    \/ ChangeLogChanged

SpecChangeLog == Init /\ [][NextChangeLog]_vars

(***************************************************************************)
(* The operator sets the fleet default and reviews plans                   *)
(***************************************************************************)

MaxDeskSteps == 4

\* the plans the planner answers with
Plans == {"p1", "p2"}

\* the tiers the operator sets the fleet default to
FleetTiers == {"manual", "autonomous"}

DeskStep ==
    /\ spent < MaxDeskSteps
    /\ spent' = spent + 1
    /\ UNCHANGED <<hookVars, sendVars, tick, robotHist, runs>>

DeskReply == UNCHANGED <<hookVars, sendVars, tick, robotHist, runs, spent>>

\* one call of a kind at a time: a control is pressed again after the answer
Idle(kind) == \A call \in pending : call.kind # kind

DeskSetFleetDefault(tier) ==
    /\ DeskStep
    /\ Idle("setFleetDefault")
    /\ tier # autonomyStore.fleetDefaultTier
    /\ SetFleetDefault(tier)

DeskFleetDefaultEnded(call, outcome) == DeskReply /\ SetFleetDefaultEnded(call, outcome)

DeskGeneratePlan == DeskStep /\ Idle("generatePlan") /\ GeneratePlan

DeskPlanEnded(call, outcome, plan) == DeskReply /\ GeneratePlanEnded(call, outcome, plan)

DeskApprove(view) == DeskStep /\ Idle("approvePlan") /\ HandleApprove(view)

DeskApproveEnded(call, outcome) == DeskReply /\ HandleApproveEnded(call, outcome)

DeskReject == DeskStep /\ HandleReject

NextDesk ==
    \/ \E tier \in FleetTiers : DeskSetFleetDefault(tier)
    \/ \E call \in pending, outcome \in Outcomes : DeskFleetDefaultEnded(call, outcome)
    \/ DeskGeneratePlan
    \/ \E call \in pending, outcome \in Outcomes, plan \in Plans :
           DeskPlanEnded(call, outcome, plan)
    \/ \E view \in Views : DeskApprove(view)
    \/ \E call \in pending, outcome \in Outcomes : DeskApproveEnded(call, outcome)
    \/ DeskReject

SpecDesk == Init /\ [][NextDesk]_vars

(***************************************************************************)
(* Claims about countdowns, suggestions and tiers                          *)
(***************************************************************************)

TierIn(robots, robotId) ==
    IF robotId \in DOMAIN robots THEN robots[robotId].autonomyTier ELSE "assisted"

IsPending(suggestions, id) == id \in DOMAIN suggestions /\ suggestions[id].status = "pending"

\* C11: every countdown is keyed by the id of a suggestion that is in the
\* suggestion map with status pending and whose robot has tier supervised.
C11_CountdownsArePendingSupervised ==
    \A id \in DOMAIN autonomyStore.countdowns :
        /\ IsPending(aiStore.suggestions, id)
        /\ TierOf(aiStore.suggestions[id].robotId) = "supervised"

\* C12: when an autonomy.changed message or setRobotTier takes a robot from
\* supervised to another tier, no countdown of that robot remains.
C12_LeavingSupervisedCancels ==
    [][\A robotId \in RobotIds :
        ( /\ event'.op \in {"autonomy.changed", "setRobotTier"}
          /\ TierOf(robotId) = "supervised"
          /\ TierIn(robotStore'.robots, robotId) # "supervised" )
        => \A id \in DOMAIN autonomyStore'.countdowns :
               autonomyStore'.countdowns[id].robotId # robotId]_vars

\* C13: after an ai.suggestion message with a pending suggestion for a robot
\* whose tier is supervised, the countdown set has a countdown under its id.
C13_PendingSupervisedGetsCountdown ==
    [][( /\ event'.op = "ai.suggestion"
         /\ event'.arg.status = "pending"
         /\ TierOf(event'.arg.robotId) = "supervised" )
       => event'.id \in DOMAIN autonomyStore'.countdowns]_vars

RejectEnded == {"reject.ok", "reject.refused", "reject.failed"}

\* C14: when the reject call of an overridden suggestion has ended, however it
\* ended, the countdown is gone and the suggestion's status is rejected.
C14_OverrideRejects ==
    [][(event'.op \in RejectEnded /\ event'.id \in overridden)
       => /\ event'.id \notin DOMAIN autonomyStore'.countdowns
          /\ aiStore'.suggestions[event'.id].status = "rejected"]_vars

PendingAutonomous(suggestions, robots) ==
    { id \in DOMAIN suggestions :
        suggestions[id].status = "pending" /\ TierIn(robots, suggestions[id].robotId) = "autonomous" }

\* C15: no countdown is created for a pending suggestion whose robot is at tier
\* autonomous, and the suggestion card shows such a suggestion as auto-executed
\* and offers no control.
C15_AutonomousHasNoCountdown ==
    /\ [][\A id \in PendingAutonomous(aiStore'.suggestions, robotStore'.robots) :
            id \in DOMAIN autonomyStore'.countdowns => id \in DOMAIN autonomyStore.countdowns]_vars
    /\ [](\A id \in PendingAutonomous(aiStore.suggestions, robotStore.robots) :
            renderActions(aiStore.suggestions[id]) = [shown |-> "Auto-executed", offered |-> {}])

\* C16: approveSuggestion is never called for a suggestion whose robot is at
\* tier manual.
C16_ManualNeverApproves ==
    [][event'.op = "approveSuggestion" => event'.arg.tier # "manual"]_vars

\* C17: a suggestion whose stored status is approved, rejected or expired keeps
\* that status in every later step.
C17_TerminalStatusStays ==
    [][\A id \in DOMAIN aiStore.suggestions :
        aiStore.suggestions[id].status # "pending"
        => /\ id \in DOMAIN aiStore'.suggestions
           /\ aiStore'.suggestions[id].status = aiStore.suggestions[id].status]_vars

TierCallFailed == {"setRobotTier.rejected", "setRobotTier.refused"}

\* C18: setRobotTier on a known robot sets the robot's tier at once, and when
\* the confirming call fails, by a rejected fetch or by a response that is not
\* a success, the robot's tier is the one it had before the call.
C18_TierRollsBack ==
    [][/\ (event'.op = "setRobotTier" /\ event'.id \in DOMAIN robotStore.robots)
          => TierIn(robotStore'.robots, event'.id) = event'.arg.tier
       /\ (event'.op \in TierCallFailed /\ event'.robot # NoRobot)
          => /\ event'.id \in DOMAIN robotStore'.robots
             /\ robotStore'.robots[event'.id].autonomyTier = event'.robot.autonomyTier]_vars

\* the coordinates a command's waypoints carry, in order
Coordinates(waypoints) ==
    [i \in 1..Len(waypoints) |-> Point(waypoints[i].latitude, waypoints[i].longitude)]

\* C19: in set-waypoints mode with a robot selected the draft is the points
\* clicked since the mode was entered, less those undone or cleared, in click
\* order; sending a non-empty draft emits exactly one follow_waypoints command
\* carrying the draft in order, and leaves the mode none and the draft empty.
C19_SendEmitsFollowWaypoints ==
    /\ [](uiStore.commandMode = "set_waypoints" /\ uiStore.selectedRobotId # ""
            => uiStore.pendingWaypoints = clicked)
    /\ [][event'.op = "waypoints.send" /\ uiStore.pendingWaypoints # <<>>
            => /\ Len(emitted') = Len(emitted) + 1
               /\ SubSeq(emitted', 1, Len(emitted)) = emitted
               /\ LET sent == emitted'[Len(emitted')]
                  IN  /\ sent.robotId = uiStore.selectedRobotId
                      /\ sent.commandType = "follow_waypoints"
                      /\ Coordinates(sent.parameters.waypoints) = uiStore.pendingWaypoints
               /\ uiStore'.commandMode = "none"
               /\ uiStore'.pendingWaypoints = <<>>]_vars

\* C20: a map click in goto or set-home mode emits exactly one command of that
\* type with the clicked coordinates and returns the mode to none; a click in
\* mode none emits nothing.
C20_ClickEmitsOnce ==
    [][event'.op = "map.click"
        => /\ uiStore.commandMode \in {"goto", "set_home"}
                => /\ emitted' = Append(emitted,
                          CommandSent(uiStore.selectedRobotId, uiStore.commandMode,
                                      LatLng(event'.arg.point.lat, event'.arg.point.lng)))
                   /\ uiStore'.commandMode = "none"
           /\ uiStore.commandMode = "none"
                => /\ emitted' = emitted
                   /\ uiStore'.commandMode = "none"]_vars

\* a set_home click reached the wire, and the click after it met mode none
C20_Witness ==
    /\ event.op = "map.click"
    /\ event.arg.met.mode = "none"
    /\ event.arg.met.selected = "r1"
    /\ Len(emitted) = 1
    /\ emitted[1] = CommandSent("r1", "set_home", LatLng(2, 1))
    /\ event.arg.point = Point(1, 2)
    /\ wire # {}
    /\ uiStore.commandMode = "none"

\* C21: in circle-area mode the first map click fixes the center and emits no
\* command, and a later click leaves the center where it is; the radius can
\* then be changed; confirm emits exactly one circle_area command with that
\* center and the current radius and leaves mode none; cancel leaves mode none
\* and emits nothing.
C21_CircleIsConfirmed ==
    /\ [][event'.op = "map.click" /\ uiStore.commandMode = "circle_area"
            => /\ emitted' = emitted
               /\ uiStore'.circleCenter = IF uiStore.circleCenter = NoPoint
                                          THEN event'.arg.point
                                          ELSE uiStore.circleCenter]_vars
    /\ [][event'.op = "circle.radius"
            => /\ uiStore'.circleRadius = event'.n
               /\ uiStore'.circleCenter = uiStore.circleCenter
               /\ emitted' = emitted]_vars
    /\ [][event'.op = "circle.confirm"
            => /\ emitted' = Append(emitted,
                      CommandSent(uiStore.selectedRobotId, "circle_area",
                                  [latitude |-> uiStore.circleCenter.lat,
                                   longitude |-> uiStore.circleCenter.lng,
                                   radius |-> uiStore.circleRadius]))
               /\ uiStore'.commandMode = "none"]_vars
    /\ [][event'.op = "circle.cancel"
            => emitted' = emitted /\ uiStore'.commandMode = "none"]_vars

\* C22: selecting a robot or nothing, and pressing Escape while a mode is
\* active, each leave the mode none, the waypoint draft empty and the circle
\* center unset.
C22_SelectAndEscapeReset ==
    [][event'.op = "selectRobot" \/ (event'.op = "key.Escape" /\ uiStore.commandMode # "none")
        => /\ uiStore'.commandMode = "none"
           /\ uiStore'.pendingWaypoints = <<>>
           /\ uiStore'.circleCenter = NoPoint]_vars

\* C23: a mode that is left leaves no draft behind, a direct switch to another
\* mode included: a waypoint draft that is not empty exists only in
\* set_waypoints mode, and a circle center only in circle_area mode.
C23_DraftsEndWithTheirMode ==
    /\ [](uiStore.pendingWaypoints # <<>> => uiStore.commandMode = "set_waypoints")
    /\ [](uiStore.circleCenter # NoPoint => uiStore.commandMode = "circle_area")
    /\ [][uiStore.commandMode = "set_waypoints" /\ uiStore'.commandMode # "set_waypoints"
            => uiStore'.pendingWaypoints = <<>>]_vars
    /\ [][uiStore.commandMode = "circle_area" /\ uiStore'.commandMode # "circle_area"
            => uiStore'.circleCenter = NoPoint]_vars

\* the calls to the backend the stores make
Collaborators ==
    {"approveSuggestion", "rejectSuggestion", "generatePlan", "approvePlan", "executeAI",
     "setRobotTier", "setFleetDefault"}

\* C26: no call to the backend lets a network failure escape as an exception
\* or a rejected promise.
C26_NoFailureEscapes == uncaught \cap Collaborators = {}

\* C27: a command.status for an id the tracker does not hold stores the command
\* and appends its id to the index of its robot; one for an id it holds merges
\* the message's fields into the record and leaves the index as it was; and
\* updateCommand for an id it does not hold changes nothing.
C27_StatusUpserts ==
    /\ [][event'.op = "command.status"
            => LET cmd == event'.arg
                   held == commandStore.commands
               IN  IF cmd.id \notin DOMAIN held
                   THEN /\ commandStore'.commands = Put(held, cmd.id, cmd)
                        /\ commandStore'.robotCommands =
                               Put(commandStore.robotCommands, cmd.robotId,
                                   Append(Get(commandStore.robotCommands, cmd.robotId, <<>>),
                                          cmd.id))
                   ELSE /\ DOMAIN commandStore'.commands = DOMAIN held
                        /\ \A id \in DOMAIN held \ {cmd.id} :
                               commandStore'.commands[id] = held[id]
                        /\ DOMAIN commandStore'.commands[cmd.id]
                               = DOMAIN held[cmd.id] \cup DOMAIN cmd
                        /\ \A f \in DOMAIN cmd : commandStore'.commands[cmd.id][f] = cmd[f]
                        /\ \A f \in DOMAIN held[cmd.id] \ DOMAIN cmd :
                               commandStore'.commands[cmd.id][f] = held[cmd.id][f]
                        /\ commandStore'.robotCommands = commandStore.robotCommands]_vars
    /\ [](\A id \in CommandIds \ DOMAIN commandStore.commands, updates \in CommandPayloads :
              updateCommand(commandStore, id, updates) = commandStore)

\* C27, its case: c1 was reported with its type for r1, and a later status for
\* c1 that names r2 and carries no type was merged into it: the record has the
\* new status and robot and still its type, c1 is indexed once, under r1, and
\* c2 is not held.
C27_Witness ==
    /\ event.op = "command.status"
    /\ event.arg = Command("c1", "r2", "completed")
    /\ commandStore.commands["c1"]
           = [id |-> "c1", robotId |-> "r2", status |-> "completed", commandType |-> "goto"]
    /\ commandStore.robotCommands = [r \in {"r1"} |-> <<"c1">>]
    /\ "c2" \notin DOMAIN commandStore.commands

\* C28: a mission.updated stores the mission under its id, in place of any
\* record with that id and with the other missions as they were; the focused
\* mission id becomes that id if the mission's status is active, and is as it
\* was otherwise.
C28_MissionUpserts ==
    [][event'.op = "mission.updated"
        => LET mission == event'.arg
           IN  /\ missionStore'.missions = Put(missionStore.missions, mission.id, mission)
               /\ missionStore'.activeMissionId =
                      IF mission.status = "active"
                      THEN mission.id
                      ELSE missionStore.activeMissionId]_vars

\* C28, its case: m1 is focused, and a message for m2, which is not active,
\* stored m2 and left the focus on m1.
C28_Witness ==
    /\ event.op = "mission.updated"
    /\ event.arg = Mission("m2", "draft")
    /\ missionStore.missions = [id \in {"m1", "m2"} |->
                                   Mission(id, IF id = "m1" THEN "active" ELSE "draft")]
    /\ missionStore.activeMissionId = "m1"

\* C24: a message whose type is none of the seven handled leaves every store as
\* it was and raises no error, and the messages after it are handled as usual.
C24_UnknownTypeIsIgnored ==
    /\ [][(event'.op \in {"onmessage.ignored", "onmessage.threw"}
              /\ event'.arg \in { Data(TRUE, msg) : msg \in UnknownMessages })
            => UNCHANGED <<connectionStore, robotStore, missionStore, commandStore,
                           autonomyStore, aiStore, uncaught>>]_vars
    /\ [][event.op = "onmessage.ignored" /\ event'.op = "mission.updated"
            => missionStore'.missions
                   = Put(missionStore.missions, event'.arg.id, event'.arg)]_vars
    /\ [][event.op = "onmessage.ignored" /\ event'.op = "robot.updated"
            => robotStore'.robots = Put(robotStore.robots, event'.id, event'.robot)]_vars

\* C24, its case: a message of an unknown type arrived when the stores held a
\* fleet and a mission, and nothing was thrown.
C24_Witness ==
    /\ event.op = "onmessage.ignored"
    /\ event.id = "robot.removed"
    /\ DOMAIN robotStore.robots = RobotIds
    /\ missionStore.activeMissionId = "m1"
    /\ uncaught = {}

\* C25: a malformed message (text that does not parse, or a payload without
\* the fields its type needs) is dropped: the handler does not throw and every
\* store is as it was.
C25_MalformedIsDropped ==
    /\ []("onmessage" \notin uncaught)
    /\ [][event'.op = "onmessage.threw"
            => UNCHANGED <<connectionStore, robotStore, missionStore, commandStore,
                           autonomyStore, aiStore>>]_vars

\* C29: an autonomy.changed appends its entry to the change log, which never
\* holds more than 100 entries, the oldest leaving first; an entry about the
\* fleet sets the fleet default tier and changes no robot, an entry about a
\* robot sets that robot's tier and leaves the fleet default as it was.
C29_ChangeIsLoggedAndApplied ==
    /\ [](Len(autonomyStore.changeLog) <= CHANGE_LOG_KEPT + 1)
    /\ [][event'.op = "autonomy.changed"
            => LET entry == event'.arg
                   robots == robotStore.robots
               IN  /\ autonomyStore'.changeLog
                          = SliceLast(autonomyStore.changeLog \o <<entry>>, CHANGE_LOG_KEPT + 1)
                   /\ IF entry.robotId = FleetSentinel
                      THEN /\ autonomyStore'.fleetDefaultTier = entry.newTier
                           /\ robotStore'.robots = robots
                      ELSE /\ autonomyStore'.fleetDefaultTier = autonomyStore.fleetDefaultTier
                           /\ IF entry.robotId \in DOMAIN robots
                              THEN robotStore'.robots =
                                       Put(robots, entry.robotId,
                                           [robots[entry.robotId] EXCEPT
                                                !.autonomyTier = entry.newTier])
                              ELSE robotStore'.robots = robots]_vars

\* C29, its case: the log is full and has lost its two oldest entries, the
\* last change set the tier of r1, and the one before it the fleet default.
C29_Witness ==
    /\ event.op = "autonomy.changed"
    /\ Len(autonomyStore.changeLog) = CHANGE_LOG_KEPT + 1
    /\ spent = CHANGE_LOG_KEPT + 3
    /\ autonomyStore.changeLog[1] = ChangeAt(3)
    /\ Last(autonomyStore.changeLog) = ChangeAt(spent)
    /\ event.arg.robotId = "r1"
    /\ robotStore.robots["r1"].autonomyTier = event.arg.newTier
    /\ robotStore.robots["r1"].autonomyTier # FleetOnWatch["r1"].autonomyTier
    /\ autonomyStore.fleetDefaultTier = ChangeAt(spent - 2).newTier
    /\ "r2" \notin DOMAIN robotStore.robots

\* C30: a sendCommand or sendBatchCommand leaves in the tracker a new pending
\* command, indexed under a robot, before any status message has arrived.
C30_SendRecordsPending ==
    [][event'.op \in {"sendCommand", "sendBatchCommand"}
        => \E id \in DOMAIN commandStore'.commands \ DOMAIN commandStore.commands :
               /\ commandStore'.commands[id].status = "pending"
               /\ \E robotId \in DOMAIN commandStore'.robotCommands :
                      \E i \in DOMAIN commandStore'.robotCommands[robotId] :
                          commandStore'.robotCommands[robotId][i] = id]_vars

\* C31: setFleetDefault(tier) sets the local fleet default tier at once,
\* before the confirming call returns, and puts the previous one back when the
\* call fails.
C31_FleetDefaultIsOptimistic ==
    /\ [][event'.op = "setFleetDefault"
            => autonomyStore'.fleetDefaultTier = event'.arg.tier]_vars
    /\ [][event'.op \in {"setFleetDefault.refused", "setFleetDefault.failed"}
            => autonomyStore'.fleetDefaultTier # event'.arg.tier]_vars

\* the samples of a trail from the k-th on
TrailFrom(trail, k) == SubSeq(trail, k, Len(trail))

\* C32: nothing clears a trail or removes samples from it but the eviction of
\* the oldest; state.sync, mission, command, suggestion and autonomy messages,
\* and a robot update for another id, leave a robot's trail as it was; the
\* trail of an id first appears on the first updateRobot for that id.
C32_TrailsChangeOnlyOnOwnUpdate ==
    [][\A id \in RobotIds :
          /\ \E k \in 1 .. Len(TrailOf(id)) + 1 :
                 \/ TrailOf(id)' = TrailFrom(TrailOf(id), k)
                 \/ /\ TrailOf(id)' # <<>>
                    /\ SubSeq(TrailOf(id)', 1, Len(TrailOf(id)') - 1) = TrailFrom(TrailOf(id), k)
          /\ (id \in DOMAIN robotStore.trails) => (id \in DOMAIN robotStore'.trails)
          /\ (event'.op # "robot.updated" \/ event'.id # id)
                 => TrailOf(id)' = TrailOf(id)]_vars

\* C33: when a robot.updated for the robot arrives between the optimistic
\* write of setRobotTier and its failure, the rollback puts back the tier
\* only: position and status keep the values of the latest inbound update, and
\* no stale position is appended to the trail.
C33_RollbackRestoresTierOnly ==
    [][(/\ event'.op = "setRobotTier.rejected"
        /\ event'.robot # NoRobot
        /\ event'.id \in DOMAIN robotStore.robots)
          => /\ robotStore'.robots[event'.id].autonomyTier = event'.robot.autonomyTier
             /\ robotStore'.robots[event'.id].position = robotStore.robots[event'.id].position
             /\ robotStore'.robots[event'.id].status = robotStore.robots[event'.id].status
             /\ Get(robotStore'.trails, event'.id, <<>>) = Get(robotStore.trails, event'.id, <<>>)]_vars

\* the sockets that are connecting or open
Live == { s \in SocketIds : readyState[s] \in {"CONNECTING", "OPEN"} }

\* C34: at any moment at most one socket is connecting or open, also when the
\* reconnect timer fires while the previous attempt is still connecting and
\* when the effect runs again.
C34_OneLiveSocket == Cardinality(Live) <= 1

\* C35: the close event of a superseded socket, arriving late, never sets
\* connected to false or reconnecting to true, and never clears the send
\* path, while a newer socket is open.
C35_LateCloseIsIgnored ==
    [][\A s \in SocketIds :
          (CloseDelivered(s) /\ (\E t \in Later(s) : readyState[t] = "OPEN"))
              => UNCHANGED <<connectionStore, commandStore>>]_vars

\* C36: connected and reconnecting are never both true; the send path is
\* installed exactly when connected is true; reconnecting is true only after
\* at least one socket has closed.
C36_ConnectionFlagsAgree ==
    /\ ~(connectionStore.connected /\ connectionStore.reconnecting)
    /\ (commandStore.sendFn # None) <=> connectionStore.connected
    /\ connectionStore.reconnecting => \E s \in SocketIds : readyState[s] = "CLOSED"

C36_Witness ==
    /\ event.op = "ws.close"
    /\ event.n = 2
    /\ readyState[1] = "CLOSED"
    /\ readyState[2] = "CLOSED"
    /\ connectionStore.reconnecting
    /\ ~connectionStore.connected
    /\ commandStore.sendFn = None
    /\ reconnectTimer = 2

\* C37: activeMissionId is null or the id of a mission the map holds whose
\* status is active, after any sequence of mission.updated and state.sync.
C37_FocusIsAnActiveMission ==
    \/ missionStore.activeMissionId = ""
    \/ /\ missionStore.activeMissionId \in DOMAIN missionStore.missions
       /\ missionStore.missions[missionStore.activeMissionId].status = "active"

\* the places where an id is listed in the lists of all robots
Listings(id) ==
    { <<r, i>> \in (DOMAIN commandStore.robotCommands) \X (1 .. Cardinality(CommandIds) + 1) :
          /\ i <= Len(commandStore.robotCommands[r])
          /\ commandStore.robotCommands[r][i] = id }

\* C38: the tracker's two indexes agree: every id listed under a robot is a
\* key of the command map whose record names that robot; every id of the map
\* is listed exactly once across all lists; and the most-recent query for a
\* robot gives the ids listed last under it, newest first, all of them
\* commands of that robot.
C38_IndexesAgree ==
    /\ \A r \in DOMAIN commandStore.robotCommands :
           \A i \in 1 .. Len(commandStore.robotCommands[r]) :
               LET id == commandStore.robotCommands[r][i]
               IN  /\ id \in DOMAIN commandStore.commands
                   /\ commandStore.commands[id].robotId = r
    /\ \A id \in DOMAIN commandStore.commands : Cardinality(Listings(id)) = 1
    /\ \A r \in RobotIds :
           LET recent == recentIds(commandStore, r)
               listed == Get(commandStore.robotCommands, r, <<>>)
           IN  /\ Len(recent) <= RECENT_COMMANDS
               /\ \A i \in 1 .. Len(recent) :
                      /\ recent[i] = listed[Len(listed) + 1 - i]
                      /\ commandStore.commands[recent[i]].robotId = r

\* C39: every command the builder emits goes to the robot selected when it is
\* emitted; a draft accumulated for one robot is never sent to another, a
\* change of the selection leaving no draft; and with no robot selected,
\* clicks, send and confirm emit nothing.
C39_CommandsGoToSelectedRobot ==
    /\ [][emitted' # emitted
            => /\ uiStore.selectedRobotId # ""
               /\ Len(emitted') = Len(emitted) + 1
               /\ SubSeq(emitted', 1, Len(emitted)) = emitted
               /\ Last(emitted').robotId = uiStore.selectedRobotId]_vars
    /\ [][uiStore'.selectedRobotId # uiStore.selectedRobotId
            => /\ uiStore'.pendingWaypoints = <<>>
               /\ uiStore'.circleCenter = NoPoint
               /\ uiStore'.commandMode = "none"]_vars

C39_Witness ==
    /\ event.op = "selectRobot"
    /\ event.id = "r2"
    /\ event.arg.met.selected = "r1"
    /\ event.arg.met.draft # <<>>
    /\ uiStore.selectedRobotId = "r2"
    /\ uiStore.pendingWaypoints = <<>>
    /\ Len(emitted) = 1
    /\ emitted[1].robotId = "r1"

\* C40: in the plan review a pending plan is discarded without an error only
\* after approve-plan answered with success: when approvePlan fails, with a
\* network error or a response that is not a success, then once the approve
\* flow has finished the plan is still pending or a plan error is set.
C40_FailedApproveKeepsPlanOrError ==
    [][event'.op \in {"handleApprove.refused", "handleApprove.failed"}
          => aiStore'.pendingPlan # NoPlan \/ aiStore'.planError # NoError]_vars

====
